---------------------------- MODULE Spec2Model ----------------------------
(***************************************************************************)
(* A model of the lox tree-walking interpreter (src/src/interpreter.rs)    *)
(* and of its driver (src/src/main.rs).                                    *)
(*                                                                         *)
(* Environments are Rc<RefCell<Environment>> cells: they are modelled as   *)
(* an arena `heap`, a sequence of records [scope, parent]; a reference to  *)
(* an environment is its index in the arena and parent = 0 is `None`.      *)
(*                                                                         *)
(* f64 numbers are modelled as exact fractions n/d with the IEEE-754       *)
(* special values (signed zero, infinities, NaN); rounding and overflow    *)
(* of the 64-bit format are not modelled.                                  *)
(***************************************************************************)
EXTENDS Integers, Sequences, FiniteSets, TLC

VARIABLES heap,     \* arena of live Environment cells
          stack,    \* activation frames of the statement loops (execute, Block)
          output,   \* what println! has written so far (the values printed)
          outcome,  \* state of the current / last run of a statement batch
          runs,     \* number of batches started so far
          last,     \* the last direct call of the Environment API and its result
          input,    \* the &str handed to execute or to tokenize
          stream    \* the items of the token iterator made from input

vars == <<heap, stack, output, outcome, runs, last, input, stream>>

-----------------------------------------------------------------------------
(* LoxResult: the runtime values (interpreter.rs, enum LoxResult).          *)
(* One record shape for the four variants: t is the variant, n/d the f64    *)
(* of a Number, s the bytes of a Str, b the bool of a Bool.                 *)

LoxType == {"Number", "Str", "Bool", "Nil"}

Number(n, d) == [t |-> "Number", n |-> n, d |-> d, s |-> <<>>, b |-> FALSE]
Str(s) == [t |-> "Str", n |-> 0, d |-> 1, s |-> s, b |-> FALSE]
Bool(b) == [t |-> "Bool", n |-> 0, d |-> 1, s |-> <<>>, b |-> b]
Nil == [t |-> "Nil", n |-> 0, d |-> 1, s |-> <<>>, b |-> FALSE]

(* Option<LoxResult>::None, the binding of a variable declared without an   *)
(* initializer.                                                             *)
NoneValue == [t |-> "None", n |-> 0, d |-> 1, s |-> <<>>, b |-> FALSE]

get_type(v) == v.t

-----------------------------------------------------------------------------
(* f64 arithmetic on fractions.  +0 is 0/1, -0 is 0/-1, +inf is 1/0,        *)
(* -inf is -1/0, NaN is 0/0; a finite non-zero number is n/d in lowest      *)
(* terms with d > 0.                                                        *)

Abs(i) == IF i < 0 THEN -i ELSE i

RECURSIVE Gcd(_, _)
Gcd(a, b) == IF b = 0 THEN a ELSE Gcd(b, a % b)

Frac(n, d) == [n |-> n, d |-> d]
PosZero == Frac(0, 1)
NegZero == Frac(0, -1)
NaN == Frac(0, 0)
Inf(sign) == Frac(sign, 0)

\* n/d with d > 0 and n # 0, in lowest terms
Norm(n, d) == LET g == Gcd(Abs(n), d) IN Frac(n \div g, d \div g)

IsNaN(a) == a.d = 0 /\ a.n = 0
IsInf(a) == a.d = 0 /\ a.n # 0
IsZero(a) == a.d # 0 /\ a.n = 0
Sign(a) == IF a.n < 0 \/ (a.n = 0 /\ a.d < 0) THEN -1 ELSE 1
Zero(sign) == Frac(0, sign)

F64Neg(a) ==
    IF IsNaN(a) THEN NaN
    ELSE IF IsZero(a) THEN Zero(-a.d)
    ELSE Frac(-a.n, a.d)

F64Add(a, b) ==
    IF IsNaN(a) \/ IsNaN(b) THEN NaN
    ELSE IF IsInf(a) /\ IsInf(b) THEN (IF a.n = b.n THEN a ELSE NaN)
    ELSE IF IsInf(a) THEN a
    ELSE IF IsInf(b) THEN b
    ELSE IF IsZero(a) /\ IsZero(b)
         THEN (IF a.d = -1 /\ b.d = -1 THEN NegZero ELSE PosZero)
    ELSE IF IsZero(a) THEN b
    ELSE IF IsZero(b) THEN a
    ELSE LET num == a.n * b.d + b.n * a.d
         IN IF num = 0 THEN PosZero ELSE Norm(num, a.d * b.d)

F64Sub(a, b) == F64Add(a, F64Neg(b))

F64Mul(a, b) ==
    IF IsNaN(a) \/ IsNaN(b) THEN NaN
    ELSE IF IsInf(a) \/ IsInf(b)
         THEN (IF IsZero(a) \/ IsZero(b) THEN NaN ELSE Inf(Sign(a) * Sign(b)))
    ELSE IF IsZero(a) \/ IsZero(b) THEN Zero(Sign(a) * Sign(b))
    ELSE Norm(a.n * b.n, a.d * b.d)

F64Div(a, b) ==
    IF IsNaN(a) \/ IsNaN(b) THEN NaN
    ELSE IF IsInf(a) /\ IsInf(b) THEN NaN
    ELSE IF IsZero(a) /\ IsZero(b) THEN NaN
    ELSE IF IsInf(a) \/ IsZero(b) THEN Inf(Sign(a) * Sign(b))
    ELSE IF IsInf(b) \/ IsZero(a) THEN Zero(Sign(a) * Sign(b))
    ELSE Norm(a.n * b.d * Sign(b), a.d * Abs(b.n))

F64Eq(a, b) ==
    /\ ~IsNaN(a)
    /\ ~IsNaN(b)
    /\ (IsZero(a) /\ IsZero(b)) \/ a = b

F64Lt(a, b) ==
    /\ ~IsNaN(a)
    /\ ~IsNaN(b)
    /\ IF IsInf(a) THEN a.n = -1 /\ b # a
       ELSE IF IsInf(b) THEN b.n = 1
       ELSE a.n * Abs(b.d) < b.n * Abs(a.d)

\* lexicographic order of two byte strings (str::partial_cmp)
RECURSIVE BytesLt(_, _)
BytesLt(s, u) ==
    IF u = <<>> THEN FALSE
    ELSE IF s = <<>> THEN TRUE
    ELSE IF Head(s) # Head(u) THEN Head(s) < Head(u)
    ELSE BytesLt(Tail(s), Tail(u))

(* #[derive(PartialEq, PartialOrd)] on LoxResult: equality and order of two *)
(* values; values of different variants are unequal and ordered by variant. *)
VariantRank(v) ==
    CASE v.t = "Number" -> 0
      [] v.t = "Str" -> 1
      [] v.t = "Bool" -> 2
      [] OTHER -> 3

LoxEq(l, r) ==
    /\ l.t = r.t
    /\ CASE l.t = "Number" -> F64Eq(Frac(l.n, l.d), Frac(r.n, r.d))
         [] l.t = "Str" -> l.s = r.s
         [] l.t = "Bool" -> l.b = r.b
         [] OTHER -> TRUE

LoxLt(l, r) ==
    IF l.t # r.t THEN VariantRank(l) < VariantRank(r)
    ELSE CASE l.t = "Number" -> F64Lt(Frac(l.n, l.d), Frac(r.n, r.d))
           [] l.t = "Str" -> BytesLt(l.s, r.s)
           [] l.t = "Bool" -> ~l.b /\ r.b
           [] OTHER -> FALSE

\* a <= b of the derived PartialOrd: partial_cmp is Less or Equal
LoxLe(l, r) == LoxLt(l, r) \/ LoxEq(l, r)

-----------------------------------------------------------------------------
(* Environment (interpreter.rs, struct Environment and its impl).           *)
(* scope is a function whose domain is the set of declared names; its       *)
(* values are Option<LoxResult>: a LoxResult, or NoneValue.                 *)

Names == {"x", "y"}

\* Environment::new(): one cell, no binding, no parent
EnvironmentNew == <<[scope |-> <<>>, parent |-> 0]>>

\* Rc::new(RefCell::new(Environment::with_parent(env))): the arena with the
\* new cell appended; the new reference is Len(h) + 1
with_parent(h, env) == Append(h, [scope |-> <<>>, parent |-> env])

\* HashMap::insert(key, value)
Insert(scope, key, value) == (key :> value) @@ scope

\* get with the parent asked first: the outermost declaration wins
RECURSIVE get_parent_first(_, _, _)
get_parent_first(h, env, key) ==
    LET up == IF h[env].parent # 0 THEN get_parent_first(h, h[env].parent, key)
              ELSE [found |-> FALSE, binding |-> NoneValue]
    IN IF up.found THEN up
       ELSE IF key \in DOMAIN h[env].scope
       THEN [found |-> TRUE, binding |-> h[env].scope[key]]
       ELSE up

\* Option<Option<LoxResult>>: found = FALSE is the outer None
RECURSIVE get(_, _, _)
get(h, env, key) ==
    IF key \in DOMAIN h[env].scope
    THEN [found |-> TRUE, binding |-> h[env].scope[key]]
    ELSE IF h[env].parent # 0
    THEN get(h, h[env].parent, key)
    ELSE [found |-> FALSE, binding |-> NoneValue]

\* set that writes the current scope whenever the name is declared somewhere
set_shadowing(h, env, key, value) ==
    IF get(h, env, key).found
    THEN [ok |-> TRUE, heap |-> [h EXCEPT ![env].scope = Insert(@, key, value)]]
    ELSE [ok |-> FALSE, heap |-> h]

\* Result<(), ()> and the arena after the call
RECURSIVE set(_, _, _, _)
set(h, env, key, value) ==
    IF key \in DOMAIN h[env].scope
    THEN [ok |-> TRUE, heap |-> [h EXCEPT ![env].scope = Insert(@, key, value)]]
    ELSE IF h[env].parent # 0
    THEN set(h, h[env].parent, key, value)
    ELSE [ok |-> FALSE, heap |-> h]

\* declare that keeps an existing binding (entry().or_insert)
declare_or_keep(h, env, key, value) ==
    IF key \in DOMAIN h[env].scope THEN h
    ELSE [h EXCEPT ![env].scope = Insert(@, key, value)]

\* declare that overwrites the nearest existing declaration of the chain
declare_nearest(h, env, key, value) ==
    IF get(h, env, key).found THEN set(h, env, key, value).heap
    ELSE [h EXCEPT ![env].scope = Insert(@, key, value)]

\* declare that always writes the global cell
declare_global(h, env, key, value) ==
    [h EXCEPT ![1].scope = Insert(@, key, value)]

declare(h, env, key, value) ==
    [h EXCEPT ![env].scope = Insert(@, key, value)]

\* the cells reached from env through parent links, env excluded
RECURSIVE Ancestors(_, _)
Ancestors(h, env) ==
    IF h[env].parent = 0 THEN {}
    ELSE {h[env].parent} \cup Ancestors(h, h[env].parent)

-----------------------------------------------------------------------------
(* The syntax tree (ast.rs).  An expression node is a record whose `kind`   *)
(* is the variant of enum Expr; every node carries index and len.  The      *)
(* String of Expr::Variable is the field `name`, the Literal of             *)
(* Expr::Literal the field `lit`.                                           *)

BinOp == {"Sum", "Substraction", "Product", "Division", "Equals", "NotEquals",
          "GreaterThan", "GreaterThanEquals", "LessThan", "LessThanEquals",
          "Comma"}

UnaryOp == {"Negate", "LogicNegate"}

\* enum Literal: Str(String), Number(f64), True, False, Nil
LitNumber(n, d) == [lk |-> "Number", n |-> n, d |-> d, s |-> <<>>]
LitStr(s) == [lk |-> "Str", n |-> 0, d |-> 1, s |-> s]
LitTrue == [lk |-> "True", n |-> 0, d |-> 1, s |-> <<>>]
LitFalse == [lk |-> "False", n |-> 0, d |-> 1, s |-> <<>>]
LitNil == [lk |-> "Nil", n |-> 0, d |-> 1, s |-> <<>>]

Literal(lit, index, len) ==
    [kind |-> "Literal", lit |-> lit, index |-> index, len |-> len]
Variable(name, index, len) ==
    [kind |-> "Variable", name |-> name, index |-> index, len |-> len]
Assign(key, value, index, len) ==
    [kind |-> "Assign", key |-> key, value |-> value, index |-> index, len |-> len]
Unary(operator, right, index, len) ==
    [kind |-> "Unary", operator |-> operator, right |-> right,
     index |-> index, len |-> len]
Grouping(expr, index, len) ==
    [kind |-> "Grouping", expr |-> expr, index |-> index, len |-> len]
Binary(left, operator, right, index, len) ==
    [kind |-> "Binary", left |-> left, operator |-> operator, right |-> right,
     index |-> index, len |-> len]
Ternary(condition, left, right, index, len) ==
    [kind |-> "Ternary", condition |-> condition, left |-> left, right |-> right,
     index |-> index, len |-> len]

\* enum Stmt; the Option<Expr> of Stmt::Variable is a sequence of 0 or 1 Expr
StmtExpression(e) == [kind |-> "Expression", expr |-> e]
StmtPrint(e) == [kind |-> "Print", expr |-> e]
StmtVariable(name, init) == [kind |-> "Variable", name |-> name, init |-> init]
StmtBlock(stmts) == [kind |-> "Block", stmts |-> stmts]

-----------------------------------------------------------------------------
(* Source text (lexer.rs).  A char is its code point and a &str is the      *)
(* sequence of its chars; a byte offset into a &str is resolved against     *)
(* the UTF-8 width of each char, as the slicing of the standard library     *)
(* does.                                                                    *)

Ascii ==
    <<" ", "!", "quote", "#", "$", "%", "&", "'", "(", ")", "*", "+", ",", "-",
      ".", "/", "0", "1", "2", "3", "4", "5", "6", "7", "8", "9", ":", ";",
      "<", "=", ">", "?", "@", "A", "B", "C", "D", "E", "F", "G", "H", "I",
      "J", "K", "L", "M", "N", "O", "P", "Q", "R", "S", "T", "U", "V", "W",
      "X", "Y", "Z", "[", "backslash", "]", "^", "_", "backquote", "a", "b", "c", "d", "e",
      "f", "g", "h", "i", "j", "k", "l", "m", "n", "o", "p", "q", "r", "s",
      "t", "u", "v", "w", "x", "y", "z", "{", "|", "}", "~">>

\* the code point of a printable ASCII character (the table starts at the
\* space, 32); the quote, the backslash and the backquote go by their names
Ch(c) == 31 + CHOOSE i \in DOMAIN Ascii : Ascii[i] = c

\* the chars of a word written character by character
Word(w) == [i \in DOMAIN w |-> Ch(w[i])]

LineFeed == 10

\* char::len_utf8
Utf8Len(c) ==
    IF c < 128 THEN 1 ELSE IF c < 2048 THEN 2 ELSE IF c < 65536 THEN 3 ELSE 4

\* the bytes of a char in UTF-8
Utf8Char(c) ==
    CASE Utf8Len(c) = 1 -> <<c>>
      [] Utf8Len(c) = 2 -> <<192 + (c \div 64), 128 + (c % 64)>>
      [] Utf8Len(c) = 3 ->
            <<224 + (c \div 4096), 128 + ((c \div 64) % 64), 128 + (c % 64)>>
      [] OTHER ->
            <<240 + (c \div 262144), 128 + ((c \div 4096) % 64),
              128 + ((c \div 64) % 64), 128 + (c % 64)>>

\* the bytes of a String
RECURSIVE Utf8(_)
Utf8(s) == IF s = <<>> THEN <<>> ELSE Utf8Char(Head(s)) \o Utf8(Tail(s))

\* &code[n..]: panics when n is past the end or inside a char
RECURSIVE SliceFrom(_, _)
SliceFrom(code, n) ==
    IF n = 0 THEN [panic |-> FALSE, s |-> code]
    ELSE IF code = <<>> \/ Utf8Len(Head(code)) > n
    THEN [panic |-> TRUE, s |-> <<>>]
    ELSE SliceFrom(Tail(code), n - Utf8Len(Head(code)))

\* &code[..n]: panics when n is past the end or inside a char
RECURSIVE SliceTo(_, _)
SliceTo(code, n) ==
    IF n = 0 THEN [panic |-> FALSE, s |-> <<>>]
    ELSE IF code = <<>> \/ Utf8Len(Head(code)) > n
    THEN [panic |-> TRUE, s |-> <<>>]
    ELSE LET rest == SliceTo(Tail(code), n - Utf8Len(Head(code)))
         IN [panic |-> rest.panic,
             s |-> IF rest.panic THEN <<>> ELSE <<Head(code)>> \o rest.s]

is_digit(c) == c >= Ch("0") /\ c <= Ch("9")

is_whitespace(c) == c \in {9, 10, 11, 12, 13, 32, 133, 8206, 8207, 8232, 8233}

\* unicode_xid: XID_Start and XID_Continue, on ASCII and Latin-1 letters
is_xid_start(c) ==
    \/ c >= Ch("A") /\ c <= Ch("Z")
    \/ c >= Ch("a") /\ c <= Ch("z")
    \/ c \in {170, 181, 186}
    \/ c >= 192 /\ c <= 255 /\ c \notin {215, 247}

is_xid_continue(c) == is_xid_start(c) \/ is_digit(c) \/ c = Ch("_") \/ c = 183

is_ident_start(c) == c = Ch("_") \/ is_xid_start(c)

is_ident_continue(c) == is_xid_continue(c)

\* the closures and functions next_token hands to consume_while, by name
Holds(f, c) ==
    CASE f = "is_digit" -> is_digit(c)
      [] f = "is_whitespace" -> is_whitespace(c)
      [] f = "is_ident_continue" -> is_ident_continue(c)
      [] f = "not_line_feed" -> c # LineFeed
      [] OTHER -> c # Ch("quote")

\* the chars taken from the front of `chars` while f holds: how many, whether
\* a char that fails f stopped the scan, and the chars taken
consume_while(chars, f) ==
    LET n == CHOOSE k \in 0..Len(chars) :
                /\ \A i \in 1..k : Holds(f, chars[i])
                /\ k = Len(chars) \/ ~Holds(f, chars[k + 1])
    IN [consumed |-> n, terminated |-> n < Len(chars),
        value |-> SubSeq(chars, 1, n)]

\* enum KeywordKind and the words of its TryFrom<&str>
KeywordKind ==
    ("And" :> Word(<<"a", "n", "d">>))
    @@ ("Class" :> Word(<<"c", "l", "a", "s", "s">>))
    @@ ("Else" :> Word(<<"e", "l", "s", "e">>))
    @@ ("False" :> Word(<<"f", "a", "l", "s", "e">>))
    @@ ("For" :> Word(<<"f", "o", "r">>))
    @@ ("Fun" :> Word(<<"f", "u", "n">>))
    @@ ("If" :> Word(<<"i", "f">>))
    @@ ("Nil" :> Word(<<"n", "i", "l">>))
    @@ ("Or" :> Word(<<"o", "r">>))
    @@ ("Print" :> Word(<<"p", "r", "i", "n", "t">>))
    @@ ("Return" :> Word(<<"r", "e", "t", "u", "r", "n">>))
    @@ ("Super" :> Word(<<"s", "u", "p", "e", "r">>))
    @@ ("This" :> Word(<<"t", "h", "i", "s">>))
    @@ ("True" :> Word(<<"t", "r", "u", "e">>))
    @@ ("Var" :> Word(<<"v", "a", "r">>))
    @@ ("While" :> Word(<<"w", "h", "i", "l", "e">>))

\* struct Token.  kw is the KeywordKind of a Keyword; lit, text, terminated,
\* n and d are the LiteralKind of a Literal (text also the String of an
\* Identifier)
Token(kind, index, len) ==
    [kind |-> kind, index |-> index, len |-> len, kw |-> "", lit |-> "",
     text |-> <<>>, terminated |-> FALSE, n |-> 0, d |-> 1]

\* what the token iterator yields when a slice of next_token or tokenize
\* panics: the thread unwinds when the parser pulls this item
PanicToken(index) == Token("Panic", index, 0)

\* the value of a run of decimal digits
RECURSIVE DigitsValue(_)
DigitsValue(digits) ==
    IF digits = <<>> THEN 0
    ELSE 10 * DigitsValue(SubSeq(digits, 1, Len(digits) - 1))
         + (digits[Len(digits)] - Ch("0"))

RECURSIVE Pow10(_)
Pow10(k) == IF k = 0 THEN 1 ELSE 10 * Pow10(k - 1)

\* str_number.parse::<f64>() on digits '.' digits, as an exact fraction
ParseNumber(whole, fraction) ==
    LET n == DigitsValue(whole) * Pow10(Len(fraction)) + DigitsValue(fraction)
    IN IF n = 0 THEN PosZero ELSE Norm(n, Pow10(Len(fraction)))

\* the Some(c) if is_digit(c) arm of next_token
NumberToken(c, chars, index) ==
    LET whole == consume_while(chars, "is_digit")
        after == SubSeq(chars, whole.consumed + 1, Len(chars))
        has_fraction ==
            /\ Len(after) >= 2
            /\ after[1] = Ch(".")
            /\ is_digit(after[2])
        fraction ==
            IF has_fraction THEN consume_while(Tail(after), "is_digit")
            ELSE consume_while(<<>>, "is_digit")
        f == ParseNumber(<<c>> \o whole.value, fraction.value)
    IN [Token("Literal", index,
              1 + whole.consumed
              + (IF has_fraction THEN fraction.consumed + 1 ELSE 0))
           EXCEPT !.lit = "Number", !.n = f.n, !.d = f.d]

\* the Some('"') arm of next_token
StrToken(chars, index) ==
    LET body == consume_while(chars, "not_quote")
    IN [Token("Literal", index,
              1 + body.consumed + (IF body.terminated THEN 1 ELSE 0))
           EXCEPT !.lit = "Str", !.terminated = body.terminated,
                  !.text = body.value]

\* the Some(c) if is_ident_start(c) arm of next_token
IdentToken(code, chars, index) ==
    LET consumed == 1 + consume_while(chars, "is_ident_continue").consumed
        s == SliceTo(code, consumed)
        keywords == {k \in DOMAIN KeywordKind : KeywordKind[k] = s.s}
    IN IF s.panic THEN PanicToken(index)
       ELSE IF keywords # {}
       THEN [Token("Keyword", index, consumed)
                EXCEPT !.kw = CHOOSE k \in keywords : TRUE]
       ELSE [Token("Identifier", index, consumed) EXCEPT !.text = s.s]

\* the arms of next_token that take a second char when it is '='
TwoCharToken(chars, index, two, one) ==
    IF chars # <<>> /\ chars[1] = Ch("=")
    THEN Token(two, index, 2)
    ELSE Token(one, index, 1)

\* the single-char arms of next_token
SingleChar ==
    ("(" :> "LeftParen") @@ (")" :> "RightParen") @@ ("{" :> "LeftBrace")
    @@ ("}" :> "RightBrace") @@ ("," :> "Comma") @@ ("." :> "Dot")
    @@ ("-" :> "Minus") @@ ("+" :> "Plus") @@ (";" :> "Semicolon")
    @@ (":" :> "Colon") @@ ("?" :> "Interrogation") @@ ("*" :> "Star")

next_token(code, index) ==
    IF code = <<>> THEN Token("Eof", index, 1)
    ELSE
    LET c == Head(code)
        chars == Tail(code)
        single == {s \in DOMAIN SingleChar : Ch(s) = c}
    IN CASE single # {} ->
                Token(SingleChar[CHOOSE s \in single : TRUE], index, 1)
         [] c = Ch("/") ->
                IF chars # <<>> /\ chars[1] = Ch("/")
                THEN Token("Comment", index,
                           1 + consume_while(chars, "not_line_feed").consumed)
                ELSE Token("Slash", index, 1)
         [] c = Ch("quote") -> StrToken(chars, index)
         [] c = Ch("!") -> TwoCharToken(chars, index, "NotEquals", "Bang")
         [] c = Ch("=") -> TwoCharToken(chars, index, "Equals", "Assign")
         [] c = Ch("<") -> TwoCharToken(chars, index, "LessThanEquals", "LessThan")
         [] c = Ch(">") ->
                TwoCharToken(chars, index, "GreaterThanEquals", "GreaterThan")
         [] OTHER ->
                IF is_digit(c) THEN NumberToken(c, chars, index)
                ELSE IF is_whitespace(c)
                THEN Token("Whitespace", index,
                           1 + consume_while(chars, "is_whitespace").consumed)
                ELSE IF is_ident_start(c) THEN IdentToken(code, chars, index)
                ELSE Token("Unknown", index, 1)

\* the items of the iterator tokenize returns, from the state (code, index)
RECURSIVE TokensFrom(_, _)
TokensFrom(code, index) ==
    LET token == next_token(code, index)
        rest == SliceFrom(code, token.len)
    IN IF token.kind = "Panic" THEN <<token>>
       ELSE IF token.kind = "Eof" THEN <<>>
       ELSE IF rest.panic THEN <<PanicToken(index)>>
       ELSE <<token>> \o TokensFrom(rest.s, index + token.len)

tokenize(code) == TokensFrom(code, 0)

-----------------------------------------------------------------------------
(* The parser (parser.rs).  `tokens` is what is left of the Peekable token  *)
(* iterator: peek is tokens[1], next takes it off.  A parsing function      *)
(* returns Result<Expr, LoxSyntaxError> together with the tokens it leaves. *)

ParseOk(expr, rest) ==
    [kind |-> "Ok", expr |-> expr, rest |-> rest, message |-> <<>>,
     index |-> 0, len |-> 0]

\* Err(LoxSyntaxError {message, index, len})
SyntaxError(message, index, len, rest) ==
    [kind |-> "SyntaxError", expr |-> Literal(LitNil, 0, 0), rest |-> rest,
     message |-> message, index |-> index, len |-> len]

\* impl TryFrom<lexer::Token> for ast::BinOp
BinOpOf ==
    ("Equals" :> "Equals") @@ ("NotEquals" :> "NotEquals")
    @@ ("GreaterThan" :> "GreaterThan")
    @@ ("GreaterThanEquals" :> "GreaterThanEquals")
    @@ ("LessThan" :> "LessThan") @@ ("LessThanEquals" :> "LessThanEquals")
    @@ ("Minus" :> "Substraction") @@ ("Plus" :> "Sum")
    @@ ("Star" :> "Product") @@ ("Slash" :> "Division") @@ ("Comma" :> "Comma")

\* impl TryFrom<lexer::Token> for ast::UnaryOp
UnaryOpOf == ("Minus" :> "Negate") @@ ("Bang" :> "LogicNegate")

matches_any(tokens, to_match) == tokens # <<>> /\ tokens[1].kind \in to_match

IsKeyword(t, k) == t.kind = "Keyword" /\ t.kw = k

\* the levels of binary operators, loosest first, and the tokens of each
Levels == <<"comma", "equality", "comparison", "term", "factor">>

LevelTokens ==
    [comma |-> {"Comma"},
     equality |-> {"NotEquals", "Equals"},
     comparison |-> {"GreaterThan", "GreaterThanEquals", "LessThan",
                     "LessThanEquals"},
     term |-> {"Minus", "Plus"},
     factor |-> {"Slash", "Star"}]

\* the span of a node that starts at `first` and ends with the node `right`
SpanLen(first, right) == right.index + right.len - first

(* Every parsing function below hands the result of the function it calls *)
(* to an operator that holds the rest of its body.                          *)

RECURSIVE expression(_), ternary(_), BinaryLevel(_, _), WhileMatches(_, _, _),
          unary(_), primary(_)

\* primary on LeftParen, once expression has returned `inner`
CloseGrouping(inner) ==
    IF inner.kind # "Ok" THEN inner
    ELSE IF inner.rest = <<>>
    THEN SyntaxError(<<"Expected ')' after grouped expression">>,
                     inner.expr.index, inner.expr.len, <<>>)
    ELSE IF inner.rest[1].kind = "RightParen"
    THEN ParseOk(Grouping(inner.expr, inner.expr.index, inner.expr.len),
                 Tail(inner.rest))
    ELSE SyntaxError(<<"The token", inner.rest[1].kind,
                       "was not expected, a ')' was expected">>,
                     inner.rest[1].index, inner.rest[1].len, Tail(inner.rest))

\* the match of primary on the token t it has taken, `rest` following it
PrimaryOf(t, rest) ==
    CASE IsKeyword(t, "True") -> ParseOk(Literal(LitTrue, t.index, t.len), rest)
      [] IsKeyword(t, "False") -> ParseOk(Literal(LitFalse, t.index, t.len), rest)
      [] IsKeyword(t, "Nil") -> ParseOk(Literal(LitNil, t.index, t.len), rest)
      [] t.kind = "Literal" /\ t.lit = "Number" ->
            ParseOk(Literal(LitNumber(t.n, t.d), t.index, t.len), rest)
      [] t.kind = "Literal" /\ t.lit = "Str" ->
            ParseOk(Literal(LitStr(Utf8(t.text)), t.index, t.len), rest)
      [] t.kind = "LeftParen" -> CloseGrouping(expression(rest))
      [] OTHER ->
            SyntaxError(<<"Token", t.kind, "does not match a valid expression">>,
                        t.index, t.len, rest)

primary(tokens) ==
    IF tokens = <<>>
    THEN SyntaxError(<<"The expression is does not have a leaf node">>,
                     0, 0, <<>>)
    ELSE PrimaryOf(Head(tokens), Tail(tokens))

\* unary on Bang or Minus, once the inner unary has returned `right`
UnaryOf(op_token, right) ==
    IF right.kind # "Ok" THEN right
    ELSE ParseOk(Unary(UnaryOpOf[op_token.kind], right.expr, op_token.index,
                       SpanLen(op_token.index, right.expr)),
                 right.rest)

unary(tokens) ==
    IF matches_any(tokens, {"Bang", "Minus"})
    THEN UnaryOf(Head(tokens), unary(Tail(tokens)))
    ELSE primary(tokens)

\* operands that are unary expressions at every level
OperandUnary(level, tokens) == unary(tokens)

\* the operand of a level: the next tighter level, unary below factor
Operand(level, tokens) ==
    IF level = Len(Levels) THEN unary(tokens)
    ELSE BinaryLevel(level + 1, tokens)

\* a right operand that takes the operators of its own level with it
RightOperandSameLevel(level, tokens) == BinaryLevel(level, tokens)

\* `let right = equality(tokens)?` in comma, and so on level by level
RightOperand(level, tokens) == Operand(level, tokens)

\* one turn of the loop of a level, once the operand has returned `right`
BinaryOf(level, expr, operator, right) ==
    IF right.kind # "Ok" THEN right
    ELSE WhileMatches(level,
                      Binary(expr, operator, right.expr, expr.index,
                             SpanLen(expr.index, right.expr)),
                      right.rest)

\* the `while matches_any(...)` loop of a level, entered with `expr` parsed
WhileMatches(level, expr, tokens) ==
    IF matches_any(tokens, LevelTokens[Levels[level]])
    THEN BinaryOf(level, expr, BinOpOf[Head(tokens).kind],
                  RightOperand(level, Tail(tokens)))
    ELSE ParseOk(expr, tokens)

\* a level once its first operand has returned `first`
EnterLoop(level, first) ==
    IF first.kind # "Ok" THEN first
    ELSE WhileMatches(level, first.expr, first.rest)

\* comma, equality, comparison, term and factor: one body, level by level
BinaryLevel(level, tokens) == EnterLoop(level, Operand(level, tokens))

comma(tokens) == BinaryLevel(1, tokens)
equality(tokens) == BinaryLevel(2, tokens)
comparison(tokens) == BinaryLevel(3, tokens)
term(tokens) == BinaryLevel(4, tokens)
factor(tokens) == BinaryLevel(5, tokens)

\* ternary once both branches are parsed
TernaryOf(condition, left, right) ==
    IF right.kind # "Ok" THEN right
    ELSE ParseOk(Ternary(condition, left, right.expr, condition.index,
                         SpanLen(condition.index, right.expr)),
                 right.rest)

\* an else-branch that stops at the next '?'
ElseBranchComma(tokens) == BinaryLevel(1, tokens)

\* `let right = ternary(tokens)?`: the branch after ':'
ElseBranch(tokens) == ternary(tokens)

\* ternary once the branch after '?' has returned `left`
ExpectColon(condition, left) ==
    IF left.kind # "Ok" THEN left
    ELSE IF left.rest = <<>>
    THEN SyntaxError(<<"Ternary operation missing one branch, expected colon">>,
                     left.expr.index, left.expr.len, <<>>)
    ELSE IF left.rest[1].kind # "Colon"
    THEN SyntaxError(<<"Ternary operation missing one branch, expected colon instead">>,
                     left.rest[1].index, left.rest[1].len, Tail(left.rest))
    ELSE TernaryOf(condition, left.expr, ElseBranch(Tail(left.rest)))

\* ternary once comma has returned `expr`
ExpectInterrogation(expr) ==
    IF expr.kind # "Ok" THEN expr
    ELSE IF matches_any(expr.rest, {"Interrogation"})
    THEN ExpectColon(expr.expr, ternary(Tail(expr.rest)))
    ELSE expr

ternary(tokens) == ExpectInterrogation(comma(tokens))

expression(tokens) == ternary(tokens)

\* print_statement and expression_statement once expression has returned:
\* the expression and the tokens after its ';'
ExpectSemicolon(expr) ==
    IF expr.kind # "Ok" THEN expr
    ELSE IF expr.rest # <<>> /\ expr.rest[1].kind = "Semicolon"
    THEN ParseOk(expr.expr, Tail(expr.rest))
    ELSE SyntaxError(<<"Expected ';' after value.">>,
                     expr.expr.index + expr.expr.len, 0,
                     IF expr.rest = <<>> THEN <<>> ELSE Tail(expr.rest))

\* Ok(Stmt::Print(expr))
OkPrint(r) == IF r.kind # "Ok" THEN r ELSE ParseOk(StmtPrint(r.expr), r.rest)

\* Ok(Stmt::Expression(expr))
OkExpression(r) ==
    IF r.kind # "Ok" THEN r ELSE ParseOk(StmtExpression(r.expr), r.rest)

print_statement(tokens) == OkPrint(ExpectSemicolon(expression(tokens)))

expression_statement(tokens) ==
    OkExpression(ExpectSemicolon(expression(tokens)))

statement(tokens) ==
    IF tokens # <<>> /\ IsKeyword(tokens[1], "Print")
    THEN print_statement(Tail(tokens))
    ELSE expression_statement(tokens)

\* Result<Vec<Stmt>, LoxSyntaxError>: `expr` of an Ok is the Vec
RECURSIVE ParseFrom(_, _)

\* a loop of parse that drops a statement with a syntax error and returns
\* the statements before it
PushRecovering(statements, stmt) ==
    IF stmt.kind # "Ok" THEN ParseOk(statements, <<>>)
    ELSE ParseFrom(Append(statements, stmt.expr), stmt.rest)

\* the push of the loop of parse, once statement has returned `stmt`
Push(statements, stmt) ==
    IF stmt.kind # "Ok" THEN stmt
    ELSE ParseFrom(Append(statements, stmt.expr), stmt.rest)

ParseFrom(statements, tokens) ==
    IF tokens = <<>> THEN ParseOk(statements, <<>>)
    ELSE Push(statements, statement(tokens))

parse(tokens) == ParseFrom(<<>>, tokens)

-----------------------------------------------------------------------------
(* Expr::eval (interpreter.rs).  The result is Result<LoxResult,            *)
(* LoxRuntimeError>, or a panic of the thread, together with the arena as   *)
(* the evaluation leaves it.                                                *)

Ok(value, h) ==
    [kind |-> "Ok", value |-> value, message |-> <<>>, index |-> 0, len |-> 0,
     heap |-> h]
Err(message, index, len, h) ==
    [kind |-> "Err", value |-> Nil, message |-> message, index |-> index,
     len |-> len, heap |-> h]
Panic(message, h) ==
    [kind |-> "Panic", value |-> Nil, message |-> message, index |-> 0,
     len |-> 0, heap |-> h]

\* LoxResult::unwrap_number / unwrap_string: the payload, or a panic
unwrap_number(v) ==
    IF v.t = "Number" THEN [panic |-> FALSE, f |-> Frac(v.n, v.d)]
    ELSE [panic |-> TRUE, f |-> NaN]

unwrap_string(v) ==
    IF v.t = "Str" THEN [panic |-> FALSE, s |-> v.s]
    ELSE [panic |-> TRUE, s |-> <<>>]

NumberOf(f) == Number(f.n, f.d)

\* the match on Literal in Expr::eval
LiteralValue(lit) ==
    CASE lit.lk = "Number" -> Number(lit.n, lit.d)
      [] lit.lk = "Str" -> Str(lit.s)
      [] lit.lk = "True" -> Bool(TRUE)
      [] lit.lk = "False" -> Bool(FALSE)
      [] OTHER -> Nil

\* l.unwrap_number() <op> r.unwrap_number(), the left unwrap first
Arith(operator, l, r, h) ==
    LET a == unwrap_number(l)
        b == unwrap_number(r)
    IN IF a.panic \/ b.panic
       THEN Panic(<<"LoxResult is not a number">>, h)
       ELSE CASE operator = "Sum" -> Ok(NumberOf(F64Add(a.f, b.f)), h)
              [] operator = "Substraction" -> Ok(NumberOf(F64Sub(a.f, b.f)), h)
              [] operator = "Product" -> Ok(NumberOf(F64Mul(a.f, b.f)), h)
              [] OTHER -> Ok(NumberOf(F64Div(a.f, b.f)), h)

\* a type check that lets == and != compare values of different types
TypeMismatchButEquality(operator, l, r) ==
    get_type(l) # get_type(r) /\ operator \notin {"Comma", "Equals", "NotEquals"}

\* the type check of the Binary arm: TRUE when the operands are rejected
TypeMismatch(operator, l, r) ==
    get_type(l) # get_type(r) /\ operator # "Comma"

\* the `match operator` of the Binary arm, on two evaluated operands
ApplyBinOp(operator, l, r, index, len, h) ==
    CASE operator = "Sum" ->
            (CASE get_type(l) = "Number" -> Arith(operator, l, r, h)
               [] get_type(l) = "Str" ->
                    LET a == unwrap_string(l)
                        b == unwrap_string(r)
                    IN IF a.panic \/ b.panic
                       THEN Panic(<<"LoxResult is not a number">>, h)
                       ELSE Ok(Str(a.s \o b.s), h)
               [] OTHER -> Err(<<"Can't perform Sum on", get_type(l)>>, index, len, h))
      [] operator \in {"Substraction", "Product", "Division"} ->
            Arith(operator, l, r, h)
      [] operator = "Equals" -> Ok(Bool(LoxEq(l, r)), h)
      [] operator = "GreaterThan" -> Ok(Bool(LoxLt(r, l)), h)
      [] operator = "GreaterThanEquals" -> Ok(Bool(LoxLe(r, l)), h)
      [] operator = "LessThan" -> Ok(Bool(LoxLt(l, r)), h)
      [] operator = "LessThanEquals" -> Ok(Bool(LoxLe(l, r)), h)
      [] operator = "NotEquals" -> Ok(Bool(~LoxEq(l, r)), h)
      [] OTHER -> Ok(r, h)

\* the Binary arm once both operands are evaluated
EvalBinary(operator, l, r, index, len, h) ==
    IF TypeMismatch(operator, l, r)
    THEN Err(<<"Cant operate on", get_type(l), get_type(r)>>, index, len, h)
    ELSE ApplyBinOp(operator, l, r, index, len, h)

\* the Unary arm once the operand is evaluated
EvalUnary(operator, right, index, len, h) ==
    IF operator = "LogicNegate"
    THEN IF right.t = "Bool" THEN Ok(Bool(~right.b), h)
         ELSE Err(<<"Cant negate type", get_type(right)>>, index, len, h)
    ELSE IF right.t = "Number"
         THEN Ok(NumberOf(F64Neg(Frac(right.n, right.d))), h)
         ELSE Err(<<"Cant negate type", get_type(right)>>, index, len, h)

\* a Variable arm for which reading an uninitialized variable is an error
EvalVariableStrict(e, h, env) ==
    LET g == get(h, env, e.name)
    IN IF g.found /\ g.binding # NoneValue
       THEN Ok(g.binding, h)
       ELSE Err(<<"The variable was not initialized before usage">>,
                e.index, e.index + e.len, h)

\* the Variable arm
EvalVariable(e, h, env) ==
    LET g == get(h, env, e.name)
    IN IF g.found
       THEN Ok(IF g.binding = NoneValue THEN Nil ELSE g.binding, h)
       ELSE Err(<<"The variable was not initialized before usage">>,
                e.index, e.index + e.len, h)

\* env.borrow_mut() is held while get and set walk the parents with
\* borrow() / borrow_mut(): a RefCell panics if a parent is env itself
AlreadyBorrowed(h, env) == env \in Ancestors(h, env)

\* the Assign arm once the right-hand side is evaluated to `res`
EvalAssign(e, res, h, env) ==
    IF AlreadyBorrowed(h, env) THEN Panic(<<"already borrowed">>, h)
    ELSE IF get(h, env, e.key).found
    THEN LET w == set(h, env, e.key, res)
         IN IF w.ok THEN Ok(res, w.heap)
            ELSE Err(<<"Variable not initialized", e.key>>, e.index, e.len, h)
    ELSE Err(<<"Variable was not initialized", e.key>>, e.index, e.len, h)

\* a ternary that takes the else-branch on true
TernaryBranchSwapped(e, condition) ==
    IF condition.b THEN e.right ELSE e.left

\* `if condition { left } else { right }`: the branch the Ternary arm evaluates
TernaryBranch(e, condition) ==
    IF condition.b THEN e.left ELSE e.right

\* a Binary arm whose right operand runs against the arena as it was before
\* the left operand ran
ArenaBeforeLeft(l, h) ==
    h

\* `let l = left.eval(env.clone())?; let r = right.eval(env)?;`: both
\* operands share the cells of env, so the right operand runs against the
\* arena as the left operand `l` left it
ArenaForRight(l, h) ==
    l.heap

RECURSIVE EvalExpr(_, _, _)
EvalExpr(e, h, env) ==
    CASE e.kind = "Variable" -> EvalVariable(e, h, env)
      [] e.kind = "Assign" ->
            LET res == EvalExpr(e.value, h, env)
            IN IF res.kind # "Ok" THEN res
               ELSE EvalAssign(e, res.value, res.heap, env)
      [] e.kind = "Literal" -> Ok(LiteralValue(e.lit), h)
      [] e.kind = "Unary" ->
            LET right == EvalExpr(e.right, h, env)
            IN IF right.kind # "Ok" THEN right
               ELSE EvalUnary(e.operator, right.value, e.index, e.len, right.heap)
      [] e.kind = "Grouping" -> EvalExpr(e.expr, h, env)
      [] e.kind = "Ternary" ->
            LET condition == EvalExpr(e.condition, h, env)
            IN IF condition.kind # "Ok" THEN condition
               ELSE IF condition.value.t # "Bool"
               THEN Err(<<"The condition of a ternary operator must resolve to a boolean but was",
                          get_type(condition.value)>>, e.index, e.len, condition.heap)
               ELSE EvalExpr(TernaryBranch(e, condition.value), condition.heap, env)
      [] OTHER ->
            LET l == EvalExpr(e.left, h, env)
            IN IF l.kind # "Ok" THEN l
               ELSE LET r == EvalExpr(e.right, ArenaForRight(l, h), env)
                    IN IF r.kind # "Ok" THEN r
                       ELSE EvalBinary(e.operator, l.value, r.value,
                                       e.index, e.len, r.heap)

-----------------------------------------------------------------------------
(* Bounds of the model.                                                     *)

MaxEnvs == 3        \* cells of the chain driven directly through the API
MaxRuns == 2        \* statement batches run against the one global cell
MaxBlockLen == 2    \* statements of a generated block or batch
MaxLexemes == 4      \* lexemes of a line typed at the REPL
MaxSources == 1     \* generated sources executed one after the other
MaxChars == 3       \* chars of a source handed to tokenize alone

-----------------------------------------------------------------------------
(* The statements and expressions the interpreter is run on.  Spans are     *)
(* laid out from a start offset i; an operator or a parenthesis is one      *)
(* byte wide.                                                               *)

\* the bytes of the string "a"
Bytes_a == <<97>>

AtomAt(i) ==
    {Literal(LitNumber(1, 1), i, 1), Literal(LitStr(Bytes_a), i, 3),
     Literal(LitTrue, i, 4), Literal(LitNil, i, 3)}
    \cup {Variable(name, i, 1) : name \in Names}

End(e) == e.index + e.len

UnaryAt(i) ==
    {Unary(op, r, i, End(r) - i) : op \in UnaryOp, r \in AtomAt(i + 1)}

BinaryAt(i) ==
    UNION {{Binary(l, op, r, i, End(r) - i) : op \in BinOp, r \in AtomAt(End(l) + 1)}
           : l \in AtomAt(i)}

AssignAtomAt(i) ==
    {Assign(key, v, i, End(v) - i) : key \in Names, v \in AtomAt(i + 2)}

GroupingAt(i) ==
    {Grouping(e, i, e.len + 2) : e \in AtomAt(i + 1)}

\* the branches of a generated ternary: a value, a read, a write
BranchAt(i) ==
    {Literal(LitNumber(1, 1), i, 1), Variable("y", i, 1),
     Assign("x", Literal(LitStr(Bytes_a), i + 2, 3), i, 5)}

TernaryAt(i) ==
    UNION {UNION {{Ternary(c, l, r, i, End(r) - i) : r \in BranchAt(End(l) + 1)}
                  : l \in BranchAt(End(c) + 1)}
           : c \in AtomAt(i)}

\* (x = true) ? x : 1 and (x = false) ? 1 : x: the condition writes what a
\* branch reads
WritingConditionAt(i) ==
    {Ternary(Assign("x", Literal(LitTrue, i + 3, 4), i + 1, 6),
             Variable("x", i + 9, 1), Literal(LitNumber(1, 1), i + 11, 1), i, 12),
     Ternary(Assign("x", Literal(LitFalse, i + 3, 5), i + 1, 7),
             Literal(LitNumber(1, 1), i + 10, 1), Variable("x", i + 12, 1), i, 13)}

\* binary expressions with an operand that writes x, or that fails:
\* (x = 1) op x, x op (x = 1), (x = 1) op (x = "a"), -"a" op (x = 1) and
\* (x = 1) op -"a"
WritingOperandAt(i) ==
    LET write(j) == Assign("x", Literal(LitNumber(1, 1), j + 2, 1), j, 3)
        other(j) == Assign("x", Literal(LitStr(Bytes_a), j + 2, 3), j, 5)
        fails(j) == Unary("Negate", Literal(LitStr(Bytes_a), j + 1, 3), j, 4)
    IN UNION {{Binary(write(i + 1), op, Variable("x", i + 6, 1), i, 7),
               Binary(Variable("x", i, 1), op, write(i + 3), i, 7),
               Binary(write(i + 1), op, other(i + 7), i, 13),
               Binary(fails(i), op, write(i + 6), i, 10),
               Binary(write(i + 1), op, fails(i + 6), i, 10)}
              : op \in {"Comma", "Sum", "Equals", "Substraction"}}

CompoundAt(i) ==
    UnaryAt(i) \cup BinaryAt(i) \cup AssignAtomAt(i) \cup GroupingAt(i)
    \cup TernaryAt(i)

\* key = <compound expression>, for the compounds other than Binary
AssignAt(i) ==
    {Assign(key, v, i, End(v) - i) :
        key \in Names,
        v \in UnaryAt(i + 2) \cup AssignAtomAt(i + 2) \cup GroupingAt(i + 2)
              \cup TernaryAt(i + 2)}

Exprs == AtomAt(0) \cup CompoundAt(0) \cup AssignAt(0)

\* a statement that always fails: -"a"
FailingExpr == Unary("Negate", Literal(LitStr(Bytes_a), 1, 3), 0, 4)

\* the statements of generated blocks and multi-statement batches
BodyStmts ==
    {StmtVariable("x", <<Literal(LitStr(Bytes_a), 8, 3)>>),
     StmtExpression(Assign("x", Literal(LitTrue, 2, 4), 0, 6)),
     StmtExpression(Assign("y", Literal(LitNumber(1, 1), 2, 1), 0, 3)),
     StmtPrint(Variable("x", 6, 1)),
     StmtExpression(FailingExpr)}

SeqsUpTo(S, n) == UNION {[1..k -> S] : k \in 0..n}

Blocks == {StmtBlock(b) : b \in SeqsUpTo(BodyStmts, MaxBlockLen)}

\* a block inside a block, between two statements of the outer block
NestedBlocks ==
    {StmtBlock(<<s, StmtBlock(<<t>>), StmtPrint(Variable("x", 6, 1))>>) :
        s \in BodyStmts, t \in BodyStmts}

VarStmts ==
    {StmtVariable(name, <<>>) : name \in Names}
    \cup {StmtVariable(name, <<e>>) : name \in Names,
                                      e \in AtomAt(8) \cup {FailingExpr}}

SingleStmts ==
    {StmtExpression(e) : e \in Exprs}
    \cup {StmtPrint(e) : e \in AtomAt(6) \cup TernaryAt(6) \cup WritingConditionAt(6)
                                \cup AssignAtomAt(6) \cup WritingOperandAt(6)}
    \cup VarStmts \cup Blocks \cup NestedBlocks

Programs ==
    {<<s>> : s \in SingleStmts}
    \cup {b \in SeqsUpTo(BodyStmts, MaxBlockLen) : Len(b) >= 2}

\* the lines typed at the REPL: up to MaxLexemes lexemes and the line feed
\* read_line keeps, or nothing at all at the end of the input
Lexemes ==
    {Word(<<"p", "r", "i", "n", "t">>), Word(<<" ">>), Word(<<"1">>),
     Word(<<"quote", "a", "quote">>), Word(<<"-">>), Word(<<";">>),
     Word(<<"/", "/">>)}

RECURSIVE Concat(_)
Concat(words) ==
    IF words = <<>> THEN <<>> ELSE Head(words) \o Concat(Tail(words))

Lines ==
    {<<>>}
    \cup {Concat(words) \o <<LineFeed>> : words \in SeqsUpTo(Lexemes, MaxLexemes)}

\* the chars of the sources handed to tokenize alone: ASCII chars of every
\* rule of next_token, and the chars U+00E9 (two bytes, XID_Start), U+20AC
\* (three bytes, no rule) and U+2028 (three bytes, whitespace)
ScannedChars ==
    {Ch("a"), Ch("1"), Ch("quote"), Ch(" "), Ch(";"), Ch("/"), Ch("#"),
     233, 8364, 8232}

ScannedSources == SeqsUpTo(ScannedChars, MaxChars)

\* the lexemes of the generated sources that are longer than one character
Spelt ==
    ("print" :> Word(<<"p", "r", "i", "n", "t">>))
    @@ ("var" :> Word(<<"v", "a", "r">>))
    @@ ("true" :> Word(<<"t", "r", "u", "e">>))
    @@ ("false" :> Word(<<"f", "a", "l", "s", "e">>))
    @@ ("nil" :> Word(<<"n", "i", "l">>))
    @@ ("==" :> Word(<<"=", "=">>)) @@ ("!=" :> Word(<<"!", "=">>))
    @@ (">=" :> Word(<<">", "=">>)) @@ ("<=" :> Word(<<"<", "=">>))
    @@ ("//" :> Word(<<"/", "/">>))
    @@ ("str_a" :> Word(<<"quote", "a", "quote">>))

Spelling(w) == IF w \in DOMAIN Spelt THEN Spelt[w] ELSE <<Ch(w)>>

\* the lexemes `words` written with `gap` spaces between two of them
RECURSIVE Written(_, _)
Written(words, gap) ==
    IF words = <<>> THEN <<>>
    ELSE IF Len(words) = 1 THEN Spelling(words[1])
    ELSE Spelling(Head(words)) \o [i \in 1..gap |-> Ch(" ")]
         \o Written(Tail(words), gap)

\* the operators of the grammar of parser.rs as they are written
BinaryWords == {",", "==", "!=", ">", ">=", "<", "<=", "+", "-", "*", "/"}
UnaryWords == {"-", "!"}

\* a op1 b op2 c
ChainWords ==
    {<<a, op1, b, op2, c>> :
        a \in {"1", "2"}, op1 \in BinaryWords, b \in {"1", "2"},
        op2 \in BinaryWords, c \in {"1", "2"}}

\* a unary operator on one side of a binary operator
UnaryMixWords ==
    {<<u, "1", op, "2">> : u \in UnaryWords, op \in BinaryWords}
    \cup {<<"1", op, u, "2">> : u \in UnaryWords, op \in BinaryWords}

TernaryAtoms == {"true", "false", "1"}

\* a ? b : c ? d : e
TernaryElseWords ==
    {<<a, "?", b, ":", c, "?", d, ":", e>> :
        a \in TernaryAtoms, b \in {"1"}, c \in TernaryAtoms, d \in {"3"},
        e \in {"4", "false"}}

\* a ? b ? c : d : e
TernaryThenWords ==
    {<<a, "?", b, "?", c, ":", d, ":", e>> :
        a \in TernaryAtoms, b \in TernaryAtoms, c \in {"1"}, d \in {"3"},
        e \in {"4", "false"}}

\* a binary operator in the condition, in a branch of a ternary
TernaryMixWords ==
    {<<"1", op, "2", "?", "3", ":", "4">> : op \in BinaryWords}
    \cup {<<"true", "?", "1", op, "2", ":", "3">> : op \in BinaryWords}
    \cup {<<"false", "?", "1", ":", "2", op, "3">> : op \in BinaryWords}

\* the examples of the documentation of the language
ExampleWords ==
    {<<"1", "+", "2", "*", "3">>, <<"2", "+", "3", "==", "5">>,
     <<"true", "?", "1", ":", "2", "?", "3", ":", "4">>,
     <<"false", "?", "1", ":", "true", "?", "3", ":", "4">>,
     <<"1", ",", "2", ",", "3">>}

ExprWords ==
    ChainWords \cup UnaryMixWords \cup TernaryElseWords \cup TernaryThenWords
    \cup TernaryMixWords \cup ExampleWords

\* parenthesized expressions: alone, nested, under a unary operator, as an
\* operand of a binary operator, as a branch of a ternary
GroupingWords ==
    {<<"(", "1", ")">>, <<"(", "(", "1", ")", ")">>, <<"-", "(", "1", ")">>,
     <<"(", "1", ")", "+", "2">>, <<"1", "+", "(", "2", ")">>,
     <<"(", "1", "+", "2", ")", "*", "3">>,
     <<"true", "?", "(", "1", ")", ":", "2">>}

\* the statements of the grammar with variables
VariableWords ==
    {<<"var", "x", ";">>, <<"var", "x", "=", "1", ";">>,
     <<"{", "1", ";", "}">>, <<"{", "}">>, <<"x", ";">>,
     <<"x", "=", "1", ";">>}

\* print statements written with one space between lexemes, expression
\* statements written without spaces
PrintSource(words) == Written(<<"print">> \o words \o <<";">>, 1) \o <<LineFeed>>
TightSource(words) == Written(words \o <<";">>, 0)
VariableSource(words) == Written(words, 1) \o <<LineFeed>>

\* the statements of the generated lines of several statements: `print 1;`
\* and `1;`, and the malformed `print ;`, `1 2;` and `print ( 1 ;`
StatementWords ==
    {<<"print", "1", ";">>, <<"1", ";">>, <<"print", ";">>, <<"1", "2", ";">>,
     <<"print", "(", "1", ";">>}

\* the lines of up to MaxBlockLen such statements
StatementLines ==
    {VariableSource(Concat(stmts)) : stmts \in SeqsUpTo(StatementWords, MaxBlockLen)}

Sources ==
    {PrintSource(words) : words \in ExprWords}
    \cup {TightSource(words) : words \in ExprWords}
    \cup {VariableSource(words) : words \in VariableWords}
    \cup {PrintSource(words) : words \in GroupingWords}
    \cup {TightSource(words) : words \in GroupingWords}

-----------------------------------------------------------------------------
(* The interpreter as a state machine.  A frame of `stack` is one running   *)
(* `for stmt in ...` loop: the loop of execute (main.rs) at the bottom, the *)
(* loop of a Block above it.  pc is the statement the loop is at, env the   *)
(* cell its statements are evaluated against, entry the arena when the      *)
(* loop began.                                                              *)

Idle == [kind |-> "Idle", message |-> <<>>, index |-> 0, len |-> 0]
Running == [kind |-> "Running", message |-> <<>>, index |-> 0, len |-> 0]
Returned(r) ==
    [kind |-> r.kind, message |-> r.message, index |-> r.index, len |-> r.len]

\* `last` before any call of the Environment API
NoCall ==
    [op |-> "none", env |-> 0, key |-> "", value |-> NoneValue, ok |-> TRUE,
     found |-> FALSE, binding |-> NoneValue]

Frame(stmts, env, entry) ==
    [stmts |-> stmts, pc |-> 1, env |-> env, entry |-> entry]

Top == stack[Len(stack)]
Cur == Top.stmts[Top.pc]
AtStmt(kind) ==
    /\ stack # <<>>
    /\ Top.pc <= Len(Top.stmts)
    /\ Cur.kind = kind

\* the Rc of a Block's scoped_env is dropped: its cell, the last one, is freed
Drop(h) == SubSeq(h, 1, Len(h) - 1)

\* `?` on an Err: every running Block returns, dropping its scope, and
\* execute returns the error; only the global cell stays
Unwind(h) == SubSeq(h, 1, 1)

\* Stmt::eval on Stmt::Variable
EvalVariableStmt(stmt, h, env) ==
    IF stmt.init = <<>>
    THEN Ok(Nil, declare(h, env, stmt.name, NoneValue))
    ELSE LET value == EvalExpr(stmt.init[1], h, env)
         IN IF value.kind # "Ok" THEN value
            ELSE Ok(Nil, declare(value.heap, env, stmt.name, value.value))

\* Stmt::eval on Expression, Print and Variable: the Result and the arena
EvalStmt(stmt, h, env) ==
    CASE stmt.kind = "Expression" -> EvalExpr(stmt.expr, h, env)
      [] stmt.kind = "Print" ->
            LET r == EvalExpr(stmt.expr, h, env)
            IN IF r.kind = "Ok" THEN Ok(Nil, r.heap) ELSE r
      [] OTHER -> EvalVariableStmt(stmt, h, env)

\* what println! writes while Stmt::eval runs
Printed(stmt, h, env) ==
    IF stmt.kind = "Print" /\ EvalExpr(stmt.expr, h, env).kind = "Ok"
    THEN <<EvalExpr(stmt.expr, h, env).value>>
    ELSE <<>>

\* a statement's result that lets the loop go on whatever it is
CompleteIgnoringErr(r, out) ==
    /\ heap' = r.heap
    /\ stack' = [stack EXCEPT ![Len(stack)].pc = @ + 1]
    /\ output' = out
    /\ UNCHANGED <<outcome, runs, last, input, stream>>

\* what a statement's result does to the machine
Complete(r, out) ==
    /\ IF r.kind = "Ok"
       THEN /\ heap' = r.heap
            /\ stack' = [stack EXCEPT ![Len(stack)].pc = @ + 1]
            /\ output' = out
            /\ outcome' = outcome
       ELSE /\ heap' = Unwind(r.heap)
            /\ stack' = <<>>
            /\ output' = output
            /\ outcome' = Returned(r)
    /\ UNCHANGED <<runs, last, input, stream>>

\* the loop of execute (main.rs) is entered with the statements `program`
Start(program) ==
    /\ outcome = Idle
    /\ runs < MaxRuns
    /\ runs' = runs + 1
    /\ stack' = <<Frame(program, 1, heap)>>
    /\ outcome' = Running
    /\ UNCHANGED <<heap, output, last, input, stream>>

ExpressionStmt ==
    /\ AtStmt("Expression")
    /\ Complete(EvalStmt(Cur, heap, Top.env), output)

PrintStmt ==
    /\ AtStmt("Print")
    /\ Complete(EvalStmt(Cur, heap, Top.env),
                output \o Printed(Cur, heap, Top.env))

VariableStmt ==
    /\ AtStmt("Variable")
    /\ Complete(EvalStmt(Cur, heap, Top.env), output)

EnterBlock ==
    /\ AtStmt("Block")
    /\ heap' = with_parent(heap, Top.env)
    /\ stack' = Append(stack, Frame(Cur.stmts, Len(heap) + 1, heap))
    /\ UNCHANGED <<output, outcome, runs, last, input, stream>>

ExitBlock ==
    /\ Len(stack) > 1
    /\ Top.pc > Len(Top.stmts)
    /\ heap' = Drop(heap)
    /\ stack' = [SubSeq(stack, 1, Len(stack) - 1)
                    EXCEPT ![Len(stack) - 1].pc = @ + 1]
    /\ UNCHANGED <<output, outcome, runs, last, input, stream>>

\* the loop of execute ends: Ok(())
ExecuteReturn ==
    /\ Len(stack) = 1
    /\ Top.pc > Len(Top.stmts)
    /\ stack' = <<>>
    /\ outcome' = [Idle EXCEPT !.kind = "Ok"]
    /\ UNCHANGED <<heap, output, runs, last, input, stream>>

\* the caller takes the Result of execute (an Err is written to stderr,
\* which is not modelled), the buffer of the line is dropped and the caller
\* is ready for the next batch
Report ==
    /\ outcome.kind \in {"Ok", "Err", "SyntaxError"}
    /\ outcome' = Idle
    /\ input' = <<>>
    /\ stream' = <<>>
    /\ UNCHANGED <<heap, stack, output, runs, last>>

Init ==
    /\ heap = EnvironmentNew
    /\ stack = <<>>
    /\ output = <<>>
    /\ outcome = Idle
    /\ runs = 0
    /\ last = NoCall
    /\ input = <<>>
    /\ stream = <<>>

Next ==
    \/ \E program \in Programs : Start(program)
    \/ ExpressionStmt
    \/ PrintStmt
    \/ VariableStmt
    \/ EnterBlock
    \/ ExitBlock
    \/ ExecuteReturn
    \/ Report

Spec == Init /\ [][Next]_vars

-----------------------------------------------------------------------------
(* The REPL (main.rs, repl): every line read from stdin is handed to        *)
(* execute with the one global cell.  The parser yields Expression and      *)
(* Print statements only, so these are the statements the loop of execute   *)
(* runs here.                                                               *)

NotWhitespace(t) == t.kind # "Whitespace"

\* execute up to its loop: tokenize, filter, parse.  The token iterator is
\* lazy: a slice that panics in the lexer unwinds the thread when the parser
\* pulls that item, which it does unless it has returned its error on an
\* earlier token (every error of the parser follows a call of next, so the
\* item was pulled exactly when no token is left behind the error)
Unwinding(tokens, ast) ==
    IF tokens # <<>> /\ tokens[Len(tokens)].kind = "Panic" /\ ast.rest = <<>>
    THEN [ast EXCEPT !.kind = "Panic",
                     !.message = <<"byte index is not a char boundary">>,
                     !.index = 0, !.len = 0]
    ELSE ast

ParseTokens(tokens) == Unwinding(tokens, parse(tokens))

\* tokenize(code).filter(|t| t.kind != TokenKind::Whitespace)
Filtered(code) == SelectSeq(tokenize(code), NotWhitespace)

Parsed(code) == ParseTokens(Filtered(code))

\* execute once parse has returned `ast`: the loop is entered, or `?` returns
EnterLoopOfExecute(ast) ==
    IF ast.kind = "Ok"
    THEN /\ stack' = <<Frame(ast.expr, 1, heap)>>
         /\ outcome' = Running
    ELSE /\ stack' = <<>>
         /\ outcome' = Returned(ast)

\* read_line, then execute as far as the first statement of the line
ReadLine(buffer) ==
    /\ outcome = Idle
    /\ runs < MaxRuns
    /\ runs' = runs + 1
    /\ input' = buffer
    /\ stream' = Filtered(buffer)
    /\ EnterLoopOfExecute(Parsed(buffer))
    /\ UNCHANGED <<heap, output, last>>

NextRepl ==
    \/ \E buffer \in Lines : ReadLine(buffer)
    \/ ExpressionStmt
    \/ PrintStmt
    \/ ExecuteReturn
    \/ Report

SpecRepl == Init /\ [][NextRepl]_vars

\* tokenize(code) with every item of the iterator pulled, as collect() does;
\* one iterator is live at a time
Tokenize(code) ==
    /\ input = <<>>
    /\ stream = <<>>
    /\ input' = code
    /\ stream' = tokenize(code)
    /\ UNCHANGED <<heap, stack, output, outcome, runs, last>>

\* the iterator and the &str it borrows go out of scope
DropIterator ==
    /\ input # <<>>
    /\ outcome = Idle
    /\ input' = <<>>
    /\ stream' = <<>>
    /\ UNCHANGED <<heap, stack, output, outcome, runs, last>>

NextScan ==
    \/ \E code \in ScannedSources : Tokenize(code)
    \/ DropIterator

SpecScan == Init /\ [][NextScan]_vars

\* execute on the generated sources, as run_file and repl call it
ReadSource(code) ==
    /\ runs < MaxSources
    /\ ReadLine(code)

NextParse ==
    \/ \E code \in Sources : ReadSource(code)
    \/ ExpressionStmt
    \/ PrintStmt
    \/ ExecuteReturn
    \/ Report

SpecParse == Init /\ [][NextParse]_vars

\* the REPL on the generated lines of several statements
NextBatch ==
    \/ \E buffer \in StatementLines : ReadLine(buffer)
    \/ ExpressionStmt
    \/ PrintStmt
    \/ ExecuteReturn
    \/ Report

SpecBatch == Init /\ [][NextBatch]_vars

-----------------------------------------------------------------------------
(* The Environment API driven directly: with_parent on the innermost cell  *)
(* (as Block does), the drop of the innermost cell, and get / declare /    *)
(* set with any name.  `last` holds the call and what it returned.         *)

DeclareValues == {NoneValue, Number(1, 1)}
SetValues == {Number(1, 1), Str(Bytes_a)}

Called(op, env, key, value) ==
    [NoCall EXCEPT !.op = op, !.env = env, !.key = key, !.value = value]

ApiWithParent ==
    /\ Len(heap) < MaxEnvs
    /\ heap' = with_parent(heap, Len(heap))
    /\ last' = Called("with_parent", Len(heap), "", NoneValue)
    /\ UNCHANGED <<stack, output, outcome, runs, input, stream>>

ApiDrop ==
    /\ Len(heap) > 1
    /\ heap' = Drop(heap)
    /\ last' = Called("drop", Len(heap), "", NoneValue)
    /\ UNCHANGED <<stack, output, outcome, runs, input, stream>>

ApiGet(env, key) ==
    /\ LET g == get(heap, env, key)
       IN last' = [Called("get", env, key, NoneValue)
                      EXCEPT !.found = g.found, !.binding = g.binding]
    /\ UNCHANGED <<heap, stack, output, outcome, runs, input, stream>>

\* found / binding: the binding HashMap::insert replaced, if any
ApiDeclare(env, key, value) ==
    /\ heap' = declare(heap, env, key, value)
    /\ last' = [Called("declare", env, key, value)
                   EXCEPT !.found = key \in DOMAIN heap[env].scope,
                          !.binding = IF key \in DOMAIN heap[env].scope
                                      THEN heap[env].scope[key] ELSE NoneValue]
    /\ UNCHANGED <<stack, output, outcome, runs, input, stream>>

ApiSet(env, key, value) ==
    /\ LET w == set(heap, env, key, value)
       IN /\ heap' = w.heap
          /\ last' = [Called("set", env, key, value) EXCEPT !.ok = w.ok]
    /\ UNCHANGED <<stack, output, outcome, runs, input, stream>>

\* the interpreter calls the API on the cell of the running loop, the
\* innermost one; outer cells are reached through the parent links
NextEnv ==
    \/ ApiWithParent
    \/ ApiDrop
    \/ \E key \in Names : ApiGet(Len(heap), key)
    \/ \E key \in Names, value \in DeclareValues :
          ApiDeclare(Len(heap), key, value)
    \/ \E key \in Names, value \in SetValues : ApiSet(Len(heap), key, value)

SpecEnv == Init /\ [][NextEnv]_vars

-----------------------------------------------------------------------------
(* Properties of the Environment API, checked under SpecEnv.                *)

\* the cells of the chain that starts at env
Chain(h, env) == {env} \cup Ancestors(h, env)

\* the cells of the chain from env that declare key
Declaring(h, env, key) == {c \in Chain(h, env) : key \in DOMAIN h[c].scope}

\* the innermost of them: every other one is among its ancestors
Innermost(h, env, key) ==
    LET declaring == Declaring(h, env, key)
    IN CHOOSE c \in declaring :
          \A d \in declaring : d = c \/ d \in Ancestors(h, c)

\* the binding of name in cell c alone
Local(h, c, name) ==
    IF name \in DOMAIN h[c].scope
    THEN [found |-> TRUE, binding |-> h[c].scope[name]]
    ELSE [found |-> FALSE, binding |-> NoneValue]

\* h2 is h1 but for the binding of key in cell c
SameBut(h1, h2, c, key) ==
    /\ Len(h2) = Len(h1)
    /\ \A i \in (1..Len(h1)) \ {c} : h2[i] = h1[i]
    /\ h2[c].parent = h1[c].parent
    /\ \A name \in Names \ {key} : Local(h2, c, name) = Local(h1, c, name)

(* C4: set(name, value) on a chain that declares name overwrites the       *)
(* binding in the innermost declaring scope only, every other scope and    *)
(* name staying as it was, and returns Ok; on a chain that does not        *)
(* declare name it returns Err and changes no scope.                       *)
SetWritesInnermostOnly ==
    [][last'.op = "set" =>
        LET key == last'.key
            declaring == Declaring(heap, last'.env, key)
        IN IF declaring # {}
           THEN /\ last'.ok
                /\ \E c \in declaring :
                      /\ c = Innermost(heap, last'.env, key)
                      /\ SameBut(heap, heap', c, key)
                      /\ Local(heap', c, key)
                            = [found |-> TRUE, binding |-> last'.value]
           ELSE /\ ~last'.ok
                /\ heap' = heap]_vars

\* set has overwritten a name that two outer scopes declare and the current
\* scope does not: the nearer one holds the new value, the outer one another
SetReachedOuterScope ==
    /\ last.op = "set"
    /\ last.ok
    /\ Len(heap) = 3
    /\ last.env = 3
    /\ last.key \notin DOMAIN heap[3].scope
    /\ last.key \in DOMAIN heap[2].scope
    /\ last.key \in DOMAIN heap[1].scope
    /\ heap[2].scope[last.key] = last.value
    /\ heap[1].scope[last.key] # last.value

(* C5: get(name) returns None exactly when no scope of the chain declares  *)
(* name, and otherwise the binding of the innermost declaring scope,       *)
(* whatever outer scopes bind name to; it changes no scope.                *)
GetReturnsInnermost ==
    [][last'.op = "get" =>
        LET env == last'.env
            key == last'.key
        IN /\ heap' = heap
           /\ last'.found <=> Declaring(heap, env, key) # {}
           /\ last'.found =>
                 last'.binding = heap[Innermost(heap, env, key)].scope[key]]_vars

\* get has returned the uninitialized marker of an inner scope although an
\* outer scope binds the name to a value
GetShadowedOuter ==
    /\ last.op = "get"
    /\ last.found
    /\ last.binding = NoneValue
    /\ Len(heap) >= 2
    /\ last.env = Len(heap)
    /\ last.key \in DOMAIN heap[1].scope
    /\ heap[1].scope[last.key] = Number(1, 1)

(* C6: declare(name, value_or_absent) changes the binding of name in the   *)
(* current scope only and always leaves name bound there to what was       *)
(* given, also when the scope already bound name (a value is replaced by   *)
(* the uninitialized marker); it has no failure result.                    *)
DeclareWritesCurrentOnly ==
    [][last'.op = "declare" =>
        LET env == last'.env
            key == last'.key
        IN /\ SameBut(heap, heap', env, key)
           /\ Local(heap', env, key) = [found |-> TRUE, binding |-> last'.value]
           /\ last'.ok]_vars

\* declare has replaced a value by the uninitialized marker in an inner
\* scope, the enclosing scope keeping its own value for the name
DeclareReplacedValue ==
    /\ last.op = "declare"
    /\ last.value = NoneValue
    /\ last.found
    /\ last.binding = Str(Bytes_a)
    /\ last.env = 2
    /\ heap[2].scope[last.key] = NoneValue
    /\ last.key \in DOMAIN heap[1].scope
    /\ heap[1].scope[last.key] = Number(1, 1)

-----------------------------------------------------------------------------
(* Properties of the interpreter, checked under Spec.                       *)

\* the machine is about to run a statement other than a Block
AtSimpleStmt ==
    /\ stack # <<>>
    /\ Top.pc <= Len(Top.stmts)
    /\ Cur.kind # "Block"

\* the result of the statement the machine is about to run
CurResult == EvalStmt(Cur, heap, Top.env)

(* C1: an assignment `x = e` whose target is declared in no scope of the   *)
(* chain fails with a runtime error and leaves every scope of the chain    *)
(* as it was, whatever e is.                                               *)
AssignUndeclaredChangesNothing ==
    [][(/\ AtStmt("Expression")
        /\ Cur.expr.kind = "Assign"
        /\ ~get(heap, Top.env, Cur.expr.key).found)
       => /\ CurResult.kind = "Err"
          /\ CurResult.heap = heap
          /\ outcome'.kind = "Err"
          /\ heap' = Unwind(heap)]_vars

(* C2: evaluating a statement returns a value or a LoxRuntimeError and     *)
(* never panics (no unwrap_number / unwrap_string on another variant, no   *)
(* RefCell borrow conflict).                                               *)
EvalNeverPanics == outcome.kind # "Panic"

(* C3: a declaration of a name inside a Block makes the reads of the name  *)
(* inside the block yield the declared value and changes no enclosing      *)
(* scope, so that when the block ends every name reads as it read from the *)
(* enclosing scope before the block ended.                                 *)
BlockDeclarationShadows ==
    [][/\ (AtStmt("Variable") /\ Len(stack) > 1 /\ CurResult.kind = "Ok")
          => LET declared ==
                     IF Cur.init = <<>> THEN NoneValue
                     ELSE EvalExpr(Cur.init[1], heap, Top.env).value
                 afterInit ==
                     IF Cur.init = <<>> THEN heap
                     ELSE EvalExpr(Cur.init[1], heap, Top.env).heap
             IN /\ get(heap', Top.env, Cur.name)
                      = [found |-> TRUE, binding |-> declared]
                /\ EvalExpr(Variable(Cur.name, 0, 1), heap', Top.env).value
                      = (IF declared = NoneValue THEN Nil ELSE declared)
                /\ \A c \in Ancestors(heap, Top.env) : heap'[c] = afterInit[c]
       /\ (Len(stack) > 1 /\ Top.pc > Len(Top.stmts))
          => /\ stack' # <<>>
             /\ stack'[Len(stack')].env = heap[Top.env].parent
             /\ \A name \in Names :
                   get(heap', stack'[Len(stack')].env, name)
                      = get(heap, heap[Top.env].parent, name)]_vars

\* inside a block that declared x as "a" while the enclosing scope binds x
\* to 1, a read of x has printed "a"
ShadowedReadInBlock ==
    /\ Len(stack) = 2
    /\ Len(heap) = 2
    /\ "x" \in DOMAIN heap[1].scope
    /\ heap[1].scope["x"] = Number(1, 1)
    /\ "x" \in DOMAIN heap[2].scope
    /\ heap[2].scope["x"] = Str(Bytes_a)
    /\ output = <<Str(Bytes_a)>>

\* the names each cell of h declares, for the cells 1..n
DeclaredNames(h, n) == [c \in 1..n |-> DOMAIN h[c].scope]

(* C7: no binding leaks out of a block.  While a block runs and when it    *)
(* finishes, with success or on a runtime error, every scope that was      *)
(* there when the block began declares the names it declared then; after   *)
(* the block a lookup finds a name only if a lookup from the enclosing     *)
(* scope found it when the block began; the parent of the block's scope is *)
(* the scope that was active when the block began.                         *)
BlockLeaksNoBinding ==
    [][/\ \A k \in 2..Len(stack') :
             LET f == stack'[k]
                 n == Len(f.entry)
             IN /\ f.env = n + 1
                /\ heap'[f.env].parent = stack'[k - 1].env
                /\ DeclaredNames(heap', n) = DeclaredNames(f.entry, n)
       /\ (Len(stack) > 1 /\ Top.pc > Len(Top.stmts))
          => /\ Len(heap') = Len(Top.entry)
             /\ DeclaredNames(heap', Len(heap')) = DeclaredNames(Top.entry, Len(heap'))
             /\ \A name \in Names :
                   get(heap', stack'[Len(stack')].env, name).found
                      = get(Top.entry, heap[Top.env].parent, name).found
       /\ (Len(stack) > 1 /\ AtSimpleStmt /\ CurResult.kind = "Err")
          => /\ \A k \in 2..Len(stack) :
                   DeclaredNames(CurResult.heap, Len(stack[k].entry))
                      = DeclaredNames(stack[k].entry, Len(stack[k].entry))
             /\ Len(heap') = 1
             /\ DOMAIN heap'[1].scope = DOMAIN stack[2].entry[1].scope]_vars

\* a block that declared x has just finished and x is declared nowhere
BlockLocalGone ==
    /\ stack # <<>>
    /\ Top.pc > 1
    /\ Top.stmts[Top.pc - 1].kind = "Block"
    /\ \E i \in 1..Len(Top.stmts[Top.pc - 1].stmts) :
          /\ Top.stmts[Top.pc - 1].stmts[i].kind = "Variable"
          /\ Top.stmts[Top.pc - 1].stmts[i].name = "x"
    /\ ~get(heap, Top.env, "x").found

(* C8: a binary operator other than comma (== and != included) applied to  *)
(* two operands of different runtime types yields a runtime error; the     *)
(* comma operator accepts them and yields the right operand.               *)
BinaryRejectsMixedTypes ==
    [][(AtStmt("Expression") /\ Cur.expr.kind = "Binary")
       => LET e == Cur.expr
              l == EvalExpr(e.left, heap, Top.env)
              r == EvalExpr(e.right, l.heap, Top.env)
          IN (/\ l.kind = "Ok"
              /\ r.kind = "Ok"
              /\ get_type(l.value) # get_type(r.value))
             => IF e.operator # "Comma"
                THEN /\ outcome'.kind = "Err"
                     /\ outcome'.message
                           = <<"Cant operate on", get_type(l.value), get_type(r.value)>>
                     /\ stack' = <<>>
                ELSE /\ CurResult.kind = "Ok"
                     /\ CurResult.value = r.value
                     /\ outcome' = outcome]_vars

\* a statement has failed on operands of types Str and Number
MixedTypesRejected ==
    /\ outcome.kind = "Err"
    /\ outcome.message = <<"Cant operate on", "Str", "Number">>

(* C9: in a sequence of statements the first one that fails stops the      *)
(* execution: the error returned is that statement's, no statement runs or *)
(* has an effect after it, and what the statements before it did (the      *)
(* bindings of the global scope, the prints) is kept.                      *)
FirstErrorStopsBatch ==
    [][/\ (AtSimpleStmt /\ CurResult.kind = "Err")
          => /\ outcome' = Returned(CurResult)
             /\ stack' = <<>>
             /\ output' = output
             /\ heap' = <<CurResult.heap[1]>>
       /\ outcome.kind = "Err"
          => /\ stack = <<>>
             /\ stack' = <<>>
             /\ heap' = heap
             /\ output' = output]_vars

\* the first batch failed after one of its statements had declared x
FailedAfterDeclaration ==
    /\ runs = 1
    /\ outcome.kind = "Err"
    /\ "x" \in DOMAIN heap[1].scope

\* the loop is at an Expression or Print statement whose expression is `kind`
AtExprOfKind(kind) ==
    /\ stack # <<>>
    /\ Top.pc <= Len(Top.stmts)
    /\ Cur.kind \in {"Expression", "Print"}
    /\ Cur.expr.kind = kind

\* the step made what evaluating `r` to the end makes of the statement Cur
StepYields(r) ==
    IF r.kind = "Ok"
    THEN /\ heap' = r.heap
         /\ outcome' = outcome
         /\ output' = IF Cur.kind = "Print" THEN Append(output, r.value) ELSE output
    ELSE /\ heap' = Unwind(r.heap)
         /\ outcome' = Returned(r)
         /\ output' = output

\* the step failed with a runtime error raised by the node `e` itself,
\* whatever the scopes were after `h`
StepFailsAt(e, h) ==
    /\ outcome'.kind = "Err"
    /\ outcome'.index = e.index
    /\ outcome'.len = e.len
    /\ heap' = Unwind(h)
    /\ output' = output

(* C15: a ternary evaluates its condition first; a condition that is not   *)
(* a Boolean is a runtime error and no branch is evaluated; otherwise the  *)
(* statement does exactly what the one branch the condition selects does   *)
(* after the condition (then-branch on true, else-branch on false), so an  *)
(* error or an assignment of the other branch is never observed.           *)
TernaryEvaluatesOneBranch ==
    [][AtExprOfKind("Ternary") =>
        LET e == Cur.expr
            condition == EvalExpr(e.condition, heap, Top.env)
        IN CASE condition.kind # "Ok" -> StepYields(condition)
             [] condition.kind = "Ok" /\ condition.value.t # "Bool" ->
                    StepFailsAt(e, condition.heap)
             [] OTHER ->
                    StepYields(EvalExpr(IF condition.value.b THEN e.left ELSE e.right,
                                        condition.heap, Top.env))]_vars

\* `true ? 1 : x = "a"` has run with x declared, and x is not "a"
UntakenAssignmentUnseen ==
    /\ stack # <<>>
    /\ Top.pc = 2
    /\ Top.stmts[1].kind = "Expression"
    /\ Top.stmts[1].expr.kind = "Ternary"
    /\ Top.stmts[1].expr.condition = Literal(LitTrue, 0, 4)
    /\ Top.stmts[1].expr.left.kind = "Literal"
    /\ Top.stmts[1].expr.right.kind = "Assign"
    /\ Top.stmts[1].expr.right.key = "x"
    /\ get(heap, Top.env, "x").found
    /\ get(heap, Top.env, "x").binding # Str(Bytes_a)

\* what the innermost scope of the chain from env that declares name binds
\* it to
Bound(h, env, name) == h[Innermost(h, env, name)].scope[name]

(* C19: a variable reference is a runtime error when no scope of the       *)
(* chain declares the name, Nil when the name is declared without a value  *)
(* (no initializer, never assigned), and the bound value otherwise; after  *)
(* an assignment `x = e` that succeeds, the value of the assignment and    *)
(* what x is bound to from the same scope are the value of e.             *)
VariableReadsAndWrites ==
    [][/\ AtExprOfKind("Variable") =>
            LET name == Cur.expr.name
            IN IF Declaring(heap, Top.env, name) = {}
               THEN /\ outcome'.kind = "Err"
                    /\ heap' = Unwind(heap)
                    /\ output' = output
               ELSE StepYields(Ok(IF Bound(heap, Top.env, name) = NoneValue
                                  THEN Nil
                                  ELSE Bound(heap, Top.env, name),
                                  heap))
       /\ AtExprOfKind("Assign") =>
            LET e == Cur.expr
                r == EvalExpr(e.value, heap, Top.env)
            IN (r.kind = "Ok" /\ Declaring(r.heap, Top.env, e.key) # {}) =>
                  /\ outcome' = outcome
                  /\ Bound(heap', Top.env, e.key) = r.value
                  /\ output' = IF Cur.kind = "Print"
                               THEN Append(output, r.value) ELSE output]_vars

\* `print x;` has printed Nil for an x declared without a value
UninitializedReadAsNil ==
    /\ stack # <<>>
    /\ Top.pc = 2
    /\ Top.stmts[1] = StmtPrint(Variable("x", 6, 1))
    /\ Declaring(heap, Top.env, "x") # {}
    /\ Bound(heap, Top.env, "x") = NoneValue
    /\ output # <<>>
    /\ output[Len(output)] = Nil

\* the node of `e` that raises the runtime error when evaluating e fails:
\* the failing operand's, in the order of evaluation, or e itself
RECURSIVE DetectedBy(_, _, _)
DetectedBy(e, h, env) ==
    CASE e.kind = "Assign" ->
            IF EvalExpr(e.value, h, env).kind # "Ok"
            THEN DetectedBy(e.value, h, env) ELSE e
      [] e.kind = "Unary" ->
            IF EvalExpr(e.right, h, env).kind # "Ok"
            THEN DetectedBy(e.right, h, env) ELSE e
      [] e.kind = "Grouping" -> DetectedBy(e.expr, h, env)
      [] e.kind = "Ternary" ->
            LET c == EvalExpr(e.condition, h, env)
            IN IF c.kind # "Ok" THEN DetectedBy(e.condition, h, env)
               ELSE IF c.value.t # "Bool" THEN e
               ELSE DetectedBy(IF c.value.b THEN e.left ELSE e.right, c.heap, env)
      [] e.kind = "Binary" ->
            LET l == EvalExpr(e.left, h, env)
            IN IF l.kind # "Ok" THEN DetectedBy(e.left, h, env)
               ELSE IF EvalExpr(e.right, l.heap, env).kind # "Ok"
               THEN DetectedBy(e.right, l.heap, env)
               ELSE e
      [] OTHER -> e

\* the expression the statement Cur evaluates, if any
CurExprs ==
    CASE Cur.kind \in {"Expression", "Print"} -> {Cur.expr}
      [] Cur.kind = "Variable" /\ Cur.init # <<>> -> {Cur.init[1]}
      [] OTHER -> {}

(* C20: a runtime error carries the offset and the length of the           *)
(* expression node that detected the failure, whatever the kind of the     *)
(* node (variable reference, assignment, unary, ternary, binary): its      *)
(* index is the node's index and its len the node's len.                   *)
ErrorCarriesNodeSpan ==
    [][(/\ stack # <<>>
        /\ Top.pc <= Len(Top.stmts)
        /\ outcome'.kind = "Err")
       => \A e \in CurExprs :
             LET node == DetectedBy(e, heap, Top.env)
             IN /\ outcome'.index = node.index
                /\ outcome'.len = node.len]_vars

(* C21: a binary expression evaluates its left operand to the end before   *)
(* its right operand, which sees what the left one wrote; an error of the  *)
(* left operand is the statement's error and nothing of the right operand  *)
(* is observed; when the left operand succeeds the right one is always     *)
(* evaluated, whatever the operator, and what both wrote is in the         *)
(* Environment afterwards; the comma operator yields the value of the      *)
(* right operand and keeps the assignments of the left one.                *)
BinaryEvaluatesLeftThenRight ==
    [][AtExprOfKind("Binary") =>
        LET e == Cur.expr
            l == EvalExpr(e.left, heap, Top.env)
            r == EvalExpr(e.right, l.heap, Top.env)
        IN CASE l.kind # "Ok" -> StepYields(l)
             [] l.kind = "Ok" /\ r.kind # "Ok" -> StepYields(r)
             [] l.kind = "Ok" /\ r.kind = "Ok" /\ e.operator = "Comma" ->
                    StepYields(Ok(r.value, r.heap))
             [] OTHER ->
                    heap' = IF outcome' = outcome THEN r.heap ELSE Unwind(r.heap)]_vars

\* `print (x = 1) , x;` has run with x declared and not 1 before: it printed
\* 1, the value of the right operand after the left one wrote x, and x is 1
CommaKeptLeftAssignment ==
    /\ stack # <<>>
    /\ Len(stack) = 1
    /\ Top.pc = 2
    /\ Top.stmts[1].kind = "Print"
    /\ Top.stmts[1].expr.kind = "Binary"
    /\ Top.stmts[1].expr.operator = "Comma"
    /\ Top.stmts[1].expr.left.kind = "Assign"
    /\ Top.stmts[1].expr.left.key = "x"
    /\ Top.stmts[1].expr.right = Variable("x", 12, 1)
    /\ "x" \in DOMAIN Top.entry[1].scope
    /\ Top.entry[1].scope["x"] # Number(1, 1)
    /\ heap[1].scope["x"] = Number(1, 1)
    /\ output # <<>>
    /\ output[Len(output)] = Number(1, 1)

-----------------------------------------------------------------------------
(* Properties of the REPL, checked under SpecRepl (C22: under SpecBatch).    *)

\* the statements execute got from parse for the source it was handed
ParsedStmts == stack[1].stmts

\* the source was parsed and its statements are still to run
AtFirstStmt == stack # <<>> /\ stack[1].pc = 1 /\ Len(stack) = 1

\* the global cell as it was when the line at hand was read
AtLineStart == IF stack = <<>> THEN heap ELSE stack[1].entry

(* C10: when a line of the REPL fails, with a syntax error or while one of  *)
(* its statements runs, the failure is one the loop reports before it       *)
(* reads the next line (the process is not aborted), and the one global     *)
(* Environment is still there with every binding holding the value it had   *)
(* when the line was read.                                                  *)
ReplSurvivesFailingLine ==
    [][(outcome.kind \in {"Idle", "Running"}
        /\ outcome'.kind \notin {"Idle", "Running", "Ok"})
       => /\ outcome'.kind \in {"Err", "SyntaxError"}
          /\ heap' = AtLineStart]_vars


\* `code` with every line comment taken out: from `//` outside a string
\* literal up to the line feed, which stays
RECURSIVE StripComments(_, _)
StripComments(code, mode) ==
    IF code = <<>> THEN <<>>
    ELSE LET c == Head(code)
             starts == /\ c = Ch("/")
                       /\ Len(code) >= 2
                       /\ code[2] = Ch("/")
         IN CASE mode = "string" ->
                    <<c>> \o StripComments(Tail(code),
                                           IF c = Ch("quote") THEN "code" ELSE "string")
              [] mode = "comment" ->
                    IF c = LineFeed THEN <<c>> \o StripComments(Tail(code), "code")
                    ELSE StripComments(Tail(code), "comment")
              [] OTHER ->
                    IF starts THEN StripComments(Tail(code), "comment")
                    ELSE <<c>> \o StripComments(Tail(code),
                                                IF c = Ch("quote") THEN "string" ELSE "code")

WithoutComments == Parsed(StripComments(input, "code"))

(* C12: no Comment token reaches the parser, and a source with a `//`      *)
(* comment parses as the source without the comment does: the same syntax  *)
(* error or the same statements, hence the same execution.                 *)
CommentsNeverReachParser ==
    /\ \A i \in DOMAIN stream : stream[i].kind # "Comment"
    /\ outcome.kind = "SyntaxError" =>
          /\ WithoutComments.kind = "SyntaxError"
          /\ WithoutComments.message = outcome.message
    /\ AtFirstStmt =>
          /\ WithoutComments.kind = "Ok"
          /\ WithoutComments.expr = ParsedStmts

\* the statements of a source as written: the tokens up to and including
\* each `;`, and what is left after the last `;` if anything is
RECURSIVE StatementTokens(_, _)
StatementTokens(tokens, chunk) ==
    IF tokens = <<>> THEN (IF chunk = <<>> THEN <<>> ELSE <<chunk>>)
    ELSE IF Head(tokens).kind = "Semicolon"
    THEN <<Append(chunk, Head(tokens))>> \o StatementTokens(Tail(tokens), <<>>)
    ELSE StatementTokens(Tail(tokens), Append(chunk, Head(tokens)))

\* the statements of `code` that have a syntax error, by their position
Malformed(code) ==
    LET chunks == StatementTokens(Filtered(code), <<>>)
    IN {i \in DOMAIN chunks : statement(chunks[i]).kind # "Ok"}

\* the syntax error of the first malformed statement of `code`
FirstError(code) ==
    LET chunks == StatementTokens(Filtered(code), <<>>)
        first == CHOOSE i \in Malformed(code) : \A j \in Malformed(code) : i <= j
    IN statement(chunks[first])

(* C22: a source whose parse fails executes nothing: when a statement of   *)
(* the source handed to execute has a syntax error, execute returns the    *)
(* syntax error of the first such statement and the loop over the          *)
(* statements is not entered, so that none of the statements is evaluated, *)
(* the well-formed ones before the malformed one included: nothing is      *)
(* printed and the Environment is unchanged, from the read of the source   *)
(* until the next source is read.                                          *)
FailedParseExecutesNothing ==
    [][/\ (input' # input /\ Malformed(input') # {}) =>
            /\ outcome'.kind = "SyntaxError"
            /\ outcome'.message = FirstError(input').message
            /\ outcome'.index = FirstError(input').index
            /\ outcome'.len = FirstError(input').len
            /\ stack' = <<>>
            /\ output' = output
            /\ heap' = heap
       /\ outcome.kind = "SyntaxError" =>
            /\ stack' = <<>>
            /\ output' = output
            /\ heap' = heap]_vars

\* `print 1 ;` followed by a malformed statement was read after a line that
\* printed once: execute has returned the syntax error and the output is
\* what it was
PrintBeforeSyntaxErrorNotRun ==
    /\ outcome.kind = "SyntaxError"
    /\ Len(StatementTokens(stream, <<>>)) >= 2
    /\ statement(StatementTokens(stream, <<>>)[1]).kind = "Ok"
    /\ statement(StatementTokens(stream, <<>>)[1]).expr.kind = "Print"
    /\ Malformed(input) = {2}
    /\ Len(output) = 1
    /\ stack = <<>>

-----------------------------------------------------------------------------
(* Properties of the scanner and the parser, checked under SpecParse.       *)

\* the kind of statement and of expression the grammar with variables
\* gives a source that starts with these lexemes
GrammarNode(words) ==
    CASE words[1] = "var" -> <<"Variable", "">>
      [] words[1] = "{" -> <<"Block", "">>
      [] Len(words) = 2 -> <<"Expression", "Variable">>
      [] OTHER -> <<"Expression", "Assign">>

NodeOf(stmt) ==
    <<stmt.kind, IF stmt.kind \in {"Expression", "Print"} THEN stmt.expr.kind ELSE "">>

(* C11: parse accepts the grammar with variables: `var IDENT ;`,           *)
(* `var IDENT = expression ;`, `{ statement* }`, a bare identifier and     *)
(* `IDENT = assignment` give no syntax error but one statement, a          *)
(* Stmt::Variable, a Stmt::Block, an Expr::Variable and an Expr::Assign.   *)
ParserAcceptsVariableGrammar ==
    \A words \in VariableWords :
        input = VariableSource(words) =>
            /\ outcome.kind # "SyntaxError"
            /\ AtFirstStmt =>
                  /\ Len(ParsedStmts) = 1
                  /\ NodeOf(ParsedStmts[1]) = GrammarNode(words)


\* the Literal a word of a generated source stands for
WordLiteral ==
    ("true" :> LitTrue) @@ ("false" :> LitFalse) @@ ("nil" :> LitNil)
    @@ ("str_a" :> LitStr(Bytes_a))
    @@ ("1" :> LitNumber(1, 1)) @@ ("2" :> LitNumber(2, 1))
    @@ ("3" :> LitNumber(3, 1)) @@ ("4" :> LitNumber(4, 1))
    @@ ("5" :> LitNumber(5, 1))

\* the operator a word of a generated source stands for, and the level of
\* the grammar it belongs to: 1 comma, 2 equality, 3 comparison, 4 term,
\* 5 factor
WordOperator ==
    ("," :> <<"Comma", 1>>) @@ ("==" :> <<"Equals", 2>>)
    @@ ("!=" :> <<"NotEquals", 2>>) @@ (">" :> <<"GreaterThan", 3>>)
    @@ (">=" :> <<"GreaterThanEquals", 3>>) @@ ("<" :> <<"LessThan", 3>>)
    @@ ("<=" :> <<"LessThanEquals", 3>>) @@ ("+" :> <<"Sum", 4>>)
    @@ ("-" :> <<"Substraction", 4>>) @@ ("*" :> <<"Product", 5>>)
    @@ ("/" :> <<"Division", 5>>)

WordUnary == ("-" :> "Negate") @@ ("!" :> "LogicNegate")

\* the two ways the expression `words` is written in Sources: where its
\* first word is among the lexemes written, and the gap between lexemes
Layouts(words) ==
    {[source |-> PrintSource(words), stmt |-> "Print",
      written |-> <<"print">> \o words, gap |-> 1, shift |-> 1],
     [source |-> TightSource(words), stmt |-> "Expression",
      written |-> words, gap |-> 0, shift |-> 0]}

\* the byte where the k-th lexeme written starts
RECURSIVE StartOf(_, _, _)
StartOf(written, gap, k) ==
    IF k = 1 THEN 0
    ELSE StartOf(written, gap, k - 1) + Len(Spelling(written[k - 1])) + gap

\* the node of the k-th word of the expression, a literal
Leaf(l, k) ==
    Literal(WordLiteral[l.written[k + l.shift]],
            StartOf(l.written, l.gap, k + l.shift),
            Len(Spelling(l.written[k + l.shift])))

\* the byte where the k-th word of the expression starts
WordStart(l, k) == StartOf(l.written, l.gap, k + l.shift)

\* nodes that span from the start of their first part to the end of their last
TernaryNode(c, a, b) == Ternary(c, a, b, c.index, End(b) - c.index)
BinaryNode(a, word, b) ==
    Binary(a, WordOperator[word][1], b, a.index, End(b) - a.index)
UnaryNode(word, at, a) == Unary(WordUnary[word], a, at, End(a) - at)

Case(l, expr) ==
    [source |-> l.source, stmts |-> <<[kind |-> l.stmt, expr |-> expr]>>]

TernaryExamples == {words \in ExampleWords : words[2] = "?"}

\* a ? b : c ? d : e read as a ? b : (c ? d : e), and a ? b ? c : d : e read
\* as a ? (b ? c : d) : e
TernaryCases ==
    {Case(l, TernaryNode(Leaf(l, 1), Leaf(l, 3),
                         TernaryNode(Leaf(l, 5), Leaf(l, 7), Leaf(l, 9)))) :
        l \in UNION {Layouts(words) : words \in TernaryElseWords \cup TernaryExamples}}
    \cup
    {Case(l, TernaryNode(Leaf(l, 1),
                         TernaryNode(Leaf(l, 3), Leaf(l, 5), Leaf(l, 7)),
                         Leaf(l, 9))) :
        l \in UNION {Layouts(words) : words \in TernaryThenWords}}

\* the source has been executed as far as its print
Printing(words) ==
    /\ input = PrintSource(words)
    /\ ~AtFirstStmt

LastPrinted == output[Len(output)]

(* C16: ternary is right-associative.  `a ? b : c ? d : e` parses as       *)
(* Ternary(a, b, Ternary(c, d, e)) and `a ? b ? c : d : e` as              *)
(* Ternary(a, Ternary(b, c, d), e), every Ternary node starting where its  *)
(* condition starts and ending where its else-branch ends; `true ? 1 : 2   *)
(* ? 3 : 4` evaluates to 1 and `false ? 1 : true ? 3 : 4` to 3.            *)
TernaryRightAssociative ==
    /\ \A c \in TernaryCases :
          input = c.source =>
              /\ outcome.kind # "SyntaxError"
              /\ AtFirstStmt => ParsedStmts = c.stmts
    /\ Printing(<<"true", "?", "1", ":", "2", "?", "3", ":", "4">>) =>
          /\ outcome.kind \in {"Running", "Ok"}
          /\ output # <<>> /\ LastPrinted = Number(1, 1)
    /\ Printing(<<"false", "?", "1", ":", "true", "?", "3", ":", "4">>) =>
          /\ outcome.kind \in {"Running", "Ok"}
          /\ output # <<>> /\ LastPrinted = Number(3, 1)

\* `false ? 1 : true ? 3 : 4` has printed 3
NestedElseBranchTaken ==
    /\ Printing(<<"false", "?", "1", ":", "true", "?", "3", ":", "4">>)
    /\ outcome.kind = "Ok"
    /\ output # <<>>
    /\ LastPrinted = Number(3, 1)

\* a op b op c with both operators of one level, read as (a op b) op c
SameLevel(words) == WordOperator[words[2]][2] = WordOperator[words[4]][2]

LeftFoldCases ==
    {Case(l, BinaryNode(BinaryNode(Leaf(l, 1), l.written[2 + l.shift], Leaf(l, 3)),
                        l.written[4 + l.shift], Leaf(l, 5))) :
        l \in UNION {Layouts(words) :
                        words \in {w \in ChainWords : SameLevel(w)}
                                  \cup {<<"1", ",", "2", ",", "3">>}}}

(* C17: comma, equality, comparison, term and factor left-fold: `a op b    *)
(* op c` with operators of one level parses as Binary(Binary(a, op, b),    *)
(* op, c), and a Binary node starts where its left operand starts and ends *)
(* where its right operand ends; `1,2,3` gives the inner node the span     *)
(* (0, 3) and the outer one the span (0, 5).                               *)
BinaryLevelsLeftFold ==
    /\ \A c \in LeftFoldCases :
          input = c.source =>
              /\ outcome.kind # "SyntaxError"
              /\ AtFirstStmt => ParsedStmts = c.stmts
    /\ (input = TightSource(<<"1", ",", "2", ",", "3">>) /\ AtFirstStmt) =>
          /\ ParsedStmts[1].expr.kind = "Binary"
          /\ <<ParsedStmts[1].expr.index, ParsedStmts[1].expr.len>> = <<0, 5>>
          /\ ParsedStmts[1].expr.left.kind = "Binary"
          /\ <<ParsedStmts[1].expr.left.index, ParsedStmts[1].expr.left.len>>
                = <<0, 3>>

\* `1 - 2 - 1` has been parsed and has printed -2
LeftFoldedSubtraction ==
    /\ Printing(<<"1", "-", "2", "-", "1">>)
    /\ outcome.kind = "Ok"
    /\ output # <<>>
    /\ LastPrinted = Number(-2, 1)

\* the word of the expression at place k
WordAt(l, k) == l.written[k + l.shift]

\* a op1 b op2 c with operators of two levels: the tighter one first
TwoLevelNode(l) ==
    IF WordOperator[WordAt(l, 2)][2] > WordOperator[WordAt(l, 4)][2]
    THEN BinaryNode(BinaryNode(Leaf(l, 1), WordAt(l, 2), Leaf(l, 3)),
                    WordAt(l, 4), Leaf(l, 5))
    ELSE BinaryNode(Leaf(l, 1), WordAt(l, 2),
                    BinaryNode(Leaf(l, 3), WordAt(l, 4), Leaf(l, 5)))

\* u a op b is (u a) op b, and a op u b is a op (u b)
UnaryMixNode(l) ==
    IF WordAt(l, 1) \in UnaryWords /\ WordAt(l, 2) \notin DOMAIN WordOperator
    THEN BinaryNode(UnaryNode(WordAt(l, 1), WordStart(l, 1), Leaf(l, 2)),
                    WordAt(l, 3), Leaf(l, 4))
    ELSE BinaryNode(Leaf(l, 1), WordAt(l, 2),
                    UnaryNode(WordAt(l, 3), WordStart(l, 3), Leaf(l, 4)))

\* a binary operator stays inside the part of the ternary it is written in
TernaryMixNode(l) ==
    CASE WordAt(l, 2) # "?" ->
            TernaryNode(BinaryNode(Leaf(l, 1), WordAt(l, 2), Leaf(l, 3)),
                        Leaf(l, 5), Leaf(l, 7))
      [] WordAt(l, 2) = "?" /\ WordAt(l, 4) # ":" ->
            TernaryNode(Leaf(l, 1),
                        BinaryNode(Leaf(l, 3), WordAt(l, 4), Leaf(l, 5)),
                        Leaf(l, 7))
      [] OTHER ->
            TernaryNode(Leaf(l, 1), Leaf(l, 3),
                        BinaryNode(Leaf(l, 5), WordAt(l, 6), Leaf(l, 7)))

TwoLevelWords ==
    {w \in ChainWords : ~SameLevel(w)}
    \cup {<<"1", "+", "2", "*", "3">>, <<"2", "+", "3", "==", "5">>}

PrecedenceCases ==
    {Case(l, TwoLevelNode(l)) : l \in UNION {Layouts(w) : w \in TwoLevelWords}}
    \cup {Case(l, UnaryMixNode(l)) : l \in UNION {Layouts(w) : w \in UnaryMixWords}}
    \cup {Case(l, TernaryMixNode(l)) :
             l \in UNION {Layouts(w) : w \in TernaryMixWords}}

(* C18: the precedence of the operators is, from the lowest, ternary,      *)
(* comma, equality, comparison, term, factor, unary: where two levels mix  *)
(* the operator of the higher level takes its operands first.  `1 + 2 * 3` *)
(* parses as 1 + (2 * 3) and evaluates to 7, `2 + 3 == 5` parses as        *)
(* (2 + 3) == 5 and evaluates to true.                                     *)
HigherLevelBindsFirst ==
    /\ \A c \in PrecedenceCases :
          input = c.source =>
              /\ outcome.kind # "SyntaxError"
              /\ AtFirstStmt => ParsedStmts = c.stmts
    /\ Printing(<<"1", "+", "2", "*", "3">>) =>
          /\ outcome.kind \in {"Running", "Ok"}
          /\ output # <<>> /\ LastPrinted = Number(7, 1)
    /\ Printing(<<"2", "+", "3", "==", "5">>) =>
          /\ outcome.kind \in {"Running", "Ok"}
          /\ output # <<>> /\ LastPrinted = Bool(TRUE)

\* `1 + 2 * 3` has printed 7
ProductBeforeSum ==
    /\ Printing(<<"1", "+", "2", "*", "3">>)
    /\ outcome.kind = "Ok"
    /\ output # <<>>
    /\ LastPrinted = Number(7, 1)

\* the token of the source at hand that precedes the byte `pos`, and the
\* token that starts at or after it
TokenBefore(pos) ==
    CHOOSE i \in DOMAIN stream :
        /\ stream[i].index < pos
        /\ \A j \in DOMAIN stream : stream[j].index < pos => j <= i

TokenAfter(pos) ==
    CHOOSE i \in DOMAIN stream :
        /\ stream[i].index >= pos
        /\ \A j \in DOMAIN stream : stream[j].index >= pos => i <= j

\* the source extent of a node: from the first byte of its first token to
\* the byte after its last token.  The first token of a Unary is the operator
\* before its operand, the tokens of a Grouping are the parentheses around
\* its expression
RECURSIVE Extent(_)
Extent(e) ==
    CASE e.kind = "Literal" ->
            [start |-> stream[TokenAfter(e.index)].index,
             end |-> End(stream[TokenAfter(e.index)])]
      [] e.kind = "Grouping" ->
            [start |-> stream[TokenBefore(Extent(e.expr).start)].index,
             end |-> End(stream[TokenAfter(Extent(e.expr).end)])]
      [] e.kind = "Unary" ->
            [start |-> stream[TokenBefore(Extent(e.right).start)].index,
             end |-> Extent(e.right).end]
      [] e.kind = "Ternary" ->
            [start |-> Extent(e.condition).start, end |-> Extent(e.right).end]
      [] OTHER ->
            [start |-> Extent(e.left).start, end |-> Extent(e.right).end]

\* a node and the nodes below it
RECURSIVE Nodes(_)
Nodes(e) ==
    {e} \cup
    CASE e.kind = "Grouping" -> Nodes(e.expr)
      [] e.kind = "Unary" -> Nodes(e.right)
      [] e.kind = "Ternary" ->
            Nodes(e.condition) \cup Nodes(e.left) \cup Nodes(e.right)
      [] e.kind = "Binary" -> Nodes(e.left) \cup Nodes(e.right)
      [] OTHER -> {}

(* C23: every expression node the parser produces carries the offset and   *)
(* the length of its full source extent: its index is the first byte of    *)
(* its first token and index + len the byte after its last token; for a    *)
(* Grouping, from the opening parenthesis through the closing one.         *)
SpanCoversSourceExtent ==
    stack # <<>> =>
        \A i \in DOMAIN ParsedStmts : \A n \in Nodes(ParsedStmts[i].expr) :
            /\ n.index = Extent(n).start
            /\ End(n) = Extent(n).end

-----------------------------------------------------------------------------
(* Properties of tokenize, checked under SpecScan.                          *)

\* the byte offsets of `code` where a char starts, and the offset of its end
RECURSIVE Boundaries(_, _)
Boundaries(code, at) ==
    IF code = <<>> THEN {at}
    ELSE {at} \cup Boundaries(Tail(code), at + Utf8Len(Head(code)))

\* the char of `code` that starts at the byte offset `at`, 0 when none does
RECURSIVE CharAtByte(_, _)
CharAtByte(code, at) ==
    IF code = <<>> \/ at < 0 THEN 0
    ELSE IF at = 0 THEN Head(code)
    ELSE CharAtByte(Tail(code), at - Utf8Len(Head(code)))

RECURSIVE SumLen(_)
SumLen(items) ==
    IF items = <<>> THEN 0 ELSE Head(items).len + SumLen(Tail(items))

CarriesText(t) ==
    \/ t.kind = "Literal" /\ t.lit = "Str"
    \/ t.kind = "Identifier"

\* the bytes of the lexeme of a token that carries its text
LexemeBytes(t) ==
    IF t.kind = "Identifier" THEN Len(Utf8(t.text))
    ELSE 1 + Len(Utf8(t.text)) + (IF t.terminated THEN 1 ELSE 0)

(* C13: for every source, multi-byte chars included, the tokens tokenize   *)
(* emits have index = the byte offset where the lexeme starts and len =    *)
(* its length in bytes: the first token starts at 0, each token starts     *)
(* where the one before ended, on a char of the source, a token that       *)
(* carries its text is as long as the bytes of its lexeme, and the         *)
(* lengths add up to the bytes of the source.                              *)
TokensSpanSourceBytes ==
    /\ stream # <<>> => stream[1].index = 0
    /\ \A k \in 1..(Len(stream) - 1) :
          stream[k + 1].index = stream[k].index + stream[k].len
    /\ \A k \in DOMAIN stream :
          /\ stream[k].index \in Boundaries(input, 0)
          /\ stream[k].index + stream[k].len \in Boundaries(input, 0)
          /\ CarriesText(stream[k]) => stream[k].len = LexemeBytes(stream[k])
    /\ SumLen(stream) = Len(Utf8(input))

\* a char no rule of the scanner matches
Unmatched(c) ==
    /\ c \notin {Ch(p) : p \in DOMAIN SingleChar}
    /\ c \notin {Ch("/"), Ch("quote"), Ch("!"), Ch("="), Ch("<"), Ch(">")}
    /\ ~is_digit(c)
    /\ ~is_whitespace(c)
    /\ ~is_ident_start(c)
    /\ c # 0

(* C14: scanning is never fatal at a char that no rule matches, a          *)
(* non-ASCII one included: the scan does not abort there, the Unknown      *)
(* token emitted for the char is exactly as long as the char, and the      *)
(* scan goes on with the char that follows, to the end of the input.       *)
UnknownCharNeverFatal ==
    \A k \in DOMAIN stream :
        LET c == CharAtByte(input, stream[k].index)
        IN /\ stream[k].kind = "Panic" => ~Unmatched(c)
           /\ stream[k].kind = "Unknown" =>
                 /\ Unmatched(c)
                 /\ stream[k].len = Utf8Len(c)
                 /\ k = Len(stream) =>
                       stream[k].index + stream[k].len = Len(Utf8(input))

=============================================================================
